---- MODULE Spec2Model ----
(***************************************************************************)
(* Verification model of the tech-news aggregation service:                *)
(*   - the hybrid cache (L1 in-memory + L2 MongoDB) of CacheService,       *)
(*   - the single-flight source fetchers (TabNewsService.fetchPage,        *)
(*     HackerNewsService.fetchBatch / fetchTopStoriesIds) and              *)
(*     SmartMixService.fetchMix,                                           *)
(*   - feed composition and cursor pagination (FeedService.fetchFeed),     *)
(*   - durable persistence with retries (PersistenceService,               *)
(*     DataWarehouseService).                                              *)
(*                                                                         *)
(* Time is in seconds.  Cached payloads are tokens (naturals): token 0 is  *)
(* the JavaScript number 0 (falsy), every other token is a truthy value    *)
(* (a non-zero number or an array, the empty array included).              *)
(***************************************************************************)
EXTENDS Integers, Sequences, FiniteSets, TLC

VARIABLES
    now,            \* Date.now(), in seconds
    memoryCache,    \* CacheService.memoryCache           (L1)
    collection,     \* MongoDBCacheService.collection     (L2 documents)
    isConnected,    \* MongoDBCacheService.isConnected
    clients,        \* direct callers of CacheService: one operation each
    setLog,         \* history: the last set per key, with what touched it
    lastGet,        \* history: the get that returned last
    ops,            \* history: number of cache operations begun
    calls,          \* invocations of fetchPage / fetchBatch / fetchMix
    attempts,       \* physical fetches (doFetchPage / doFetchBatch / doFetch...)
    fetchLocks,     \* the fetchLocks maps and SmartMixService.fetchLock
    topStoriesIds,  \* HackerNewsService.topStoriesIds (0 = null)
    topStoriesIdsFetchLock, \* attempt owning the ID fetch (0 = null)
    idsRequests,    \* history: requests for topstories.json
    feed,           \* FeedService.fetchFeed: inputs and responses
    persist,        \* PersistenceService.persistAll and the data warehouse
    enrich,         \* relevance scoring and enrichment of an item
    ranked,         \* RankingService / rankItems: a ranking pass
    timers          \* status-checker: backgroundTask and the live timers

vars == <<now, memoryCache, collection, isConnected, clients, setLog, lastGet,
          ops, calls,
          attempts, fetchLocks, topStoriesIds, topStoriesIdsFetchLock,
          idsRequests, feed, persist, enrich, ranked, timers>>

cacheVars == <<now, memoryCache, collection, isConnected>>
fetchVars == <<calls, attempts, fetchLocks, topStoriesIds,
               topStoriesIdsFetchLock, idsRequests>>

-----------------------------------------------------------------------------
(* Bounds of the model *)

NClients == 2       \* concurrent direct users of the cache
MaxOps == 3         \* cache operations per behaviour
MaxNow == 7380      \* the clock stops here
TickStep == 180     \* step of the clock past the TTL boundaries
MaxCalls == 2       \* invocations of the fetchers per behaviour
MaxItems == 2       \* items an upstream delivers
MaxTweets == 1      \* tweets the Twitter source delivers
MaxLimit == 3       \* page sizes requested
MaxPersistItems == 1  \* items in each list handed to persistAll
MaxAttempts == 4    \* physical fetches per behaviour

-----------------------------------------------------------------------------
(* Cache keys and TTL policy *)

TabNewsPage1 == "tabnews:page:1"
HackerNewsBatch0 == "hackernews:batch:0"
HackerNewsBatch1 == "hackernews:batch:1"
SmartMixKey == "smartmix"
CommentsKey == "comments:user:slug"
TechScoreKey == "tech-score:hn:1"
DevToKey == "devto"
LobstersKey == "lobsters"

CacheKeys == {TabNewsPage1, HackerNewsBatch0, HackerNewsBatch1, SmartMixKey,
              CommentsKey, TechScoreKey, DevToKey, LobstersKey}

\* key.includes("tech-score") / key.includes("comments")
IncludesTechScore(key) == key = TechScoreKey
IncludesComments(key) == key = CommentsKey

L1_TECH_SCORE_TTL == 7200
L1_COMMENTS_TTL == 300
L1_DEFAULT_TTL == 180
L2_TECH_SCORE_TTL == 604800
L2_COMMENTS_TTL == 1800
L2_DEFAULT_TTL == 900
TECH_SCORE_CUSTOM_TTL == 86400

\* CacheService.getCacheDurationSeconds (L1)
getCacheDurationSeconds(key) ==
    IF IncludesTechScore(key) THEN L1_TECH_SCORE_TTL
    ELSE IF IncludesComments(key) THEN L1_COMMENTS_TTL
    ELSE L1_DEFAULT_TTL

\* MongoDBCacheService.getCacheDurationSeconds (L2)
mongoGetCacheDurationSeconds(key) ==
    IF IncludesTechScore(key) THEN L2_TECH_SCORE_TTL
    ELSE IF IncludesComments(key) THEN L2_COMMENTS_TTL
    ELSE L2_DEFAULT_TTL

NoTtl == 0          \* customTtlSeconds === undefined

\* customTtlSeconds ?? this.getCacheDurationSeconds(key)
mongoTtl(key, customTtlSeconds) ==
    IF customTtlSeconds # NoTtl THEN customTtlSeconds
    ELSE mongoGetCacheDurationSeconds(key)

\* JavaScript truthiness of a payload token
Truthy(data) == data # 0

Null == -1          \* the null a get returns on a miss

\* Cache entries.  setAt and setTtl are history fields: the time of the set
\* call that stored the data and the customTtlSeconds it was given.
L1Absent == [present |-> FALSE, data |-> 0, timestamp |-> 0,
             setAt |-> 0, setTtl |-> 0]
L2Absent == [present |-> FALSE, data |-> 0, expiresAt |-> 0,
             setAt |-> 0, setTtl |-> 0]

L1Entry(data, t, setAt, setTtl) ==
    [present |-> TRUE, data |-> data, timestamp |-> t,
     setAt |-> setAt, setTtl |-> setTtl]
L2Entry(data, e, setAt, setTtl) ==
    [present |-> TRUE, data |-> data, expiresAt |-> e,
     setAt |-> setAt, setTtl |-> setTtl]

\* CacheService.get, L1 part: the entry is served unless
\* Date.now() - entry.timestamp > duration
L1Fresh(mc, key, t) ==
    /\ mc[key].present
    /\ ~(t - mc[key].timestamp > getCacheDurationSeconds(key))

\* CacheService.get, L1 part: an expired entry is deleted
L1AfterLookup(mc, key, t) ==
    IF mc[key].present /\ ~L1Fresh(mc, key, t)
    THEN [mc EXCEPT ![key] = L1Absent]
    ELSE mc

\* MongoDBCacheService.get after findOne returned `doc`: null when there is
\* no document or new Date() > entry.expiresAt, else entry.data
mongoGetResult(doc, t) ==
    IF ~doc.present THEN Null
    ELSE IF t > doc.expiresAt THEN Null
    ELSE doc.data

\* CacheService.get, L2 part: `if (mongoData)` rehydrates L1 and returns the
\* data, anything falsy is a miss
L2Hit(doc, t) == mongoGetResult(doc, t) # Null /\ Truthy(mongoGetResult(doc, t))

-----------------------------------------------------------------------------
(* Direct use of the cache: CacheService.get / set / delete / clear *)

Clients == 1..NClients
MaxValue == 1
MaxNews == 7
MaxHighlights == 2
MaxMatches == 7
MaxRanked == 2
MaxTimers == 3
MaxUpdates == 3
Values == 0..MaxValue
ClientKeys == {TabNewsPage1, TechScoreKey}

\* the customTtlSeconds the callers of set pass: 86400 for tech scores
CustomTtls(key) ==
    IF IncludesTechScore(key) THEN {TECH_SCORE_CUSTOM_TTL} ELSE {NoTtl}

\* a client: the operation it is in, and the document its MongoDB request
\* carries (set) or has read (get)
IdleClient == [pc |-> "idle", key |-> TabNewsPage1, doc |-> L2Absent,
               clean |-> FALSE, cleared |-> FALSE]

\* setLog: the last set per key; valid = it ran undisturbed by other writes;
\* l2 = what became of its L2 write; returned = how the set came back, with
\* l1 = the payload L1 held for the key at that moment (Null = none); aged =
\* time passed while the set was under way; kept = no get rehydrated the
\* key's L1 entry while the set was under way; cleared = a clear that began
\* after a set of the key had completed is under way ("pending", begun by
\* client `clearer`) or has completed ("done"), the key not set again since
NoSet == [valid |-> FALSE, done |-> FALSE, data |-> 0, at |-> 0, ttl |-> NoTtl,
          l2 |-> "none", returned |-> "none", l1 |-> Null, aged |-> FALSE,
          kept |-> TRUE, cleared |-> "no", clearer |-> 0]

\* a set that lets the failure of the L2 write through
SetRethrows(ok) == IF ok THEN "ok" ELSE "threw"

\* how set comes back after its L2 write: a failure is caught and logged
\* (MongoDBCacheService.set, and again CacheService.set), never rethrown
SetReturns(ok) == "ok"

\* the payload L1 holds for the key
L1Payload(mc, key) == IF mc[key].present THEN mc[key].data ELSE Null

\* lastGet: the get that returned last
\* (setAt, setTtl: the set that stored the entry served; clean: a set of the
\* key had completed when the get was issued and nothing else has written the
\* key since that set began; sent, sentAt, sentTtl: that set)
NoGet == [key |-> TabNewsPage1, result |-> Null, tier |-> "none", setAt |-> 0,
          setTtl |-> NoTtl, returnedAt |-> 0, clean |-> FALSE,
          cleared |-> FALSE,
          sent |-> 0, sentAt |-> 0, sentTtl |-> NoTtl]

Ready(c) == clients[c].pc = "idle" /\ ops < MaxOps

\* the record of a client that begins an operation on key, at program point pc
Begun(c, pc, key, doc) ==
    [pc |-> pc, key |-> key, doc |-> doc,
     clean |-> setLog[key].valid /\ setLog[key].done,
     cleared |-> setLog[key].cleared = "done"]

\* an operation of another client that writes `key` is in flight
WriterInFlight(c, key) ==
    \E d \in Clients \ {c} :
        \/ clients[d].pc \in {"updateOne", "deleteOne"} /\ clients[d].key = key
        \/ clients[d].pc = "deleteMany"

\* a write to `keys` begins: gets in flight on these keys are no longer
\* undisturbed
Touch(cl, keys) ==
    [d \in Clients |->
        IF cl[d].pc \in {"findOne", "findReply"} /\ cl[d].key \in keys
        THEN [cl[d] EXCEPT !.clean = FALSE, !.cleared = FALSE] ELSE cl[d]]

GetReturns(key, result, tier, entry, clean, cleared) ==
    [key |-> key, result |-> result, tier |-> tier, setAt |-> entry.setAt,
     setTtl |-> entry.setTtl, returnedAt |-> now, clean |-> clean,
     cleared |-> cleared,
     sent |-> setLog[key].data, sentAt |-> setLog[key].at,
     sentTtl |-> setLog[key].ttl]

\* CacheService.set up to `await this.mongodbCache.set(...)`: L1 is written,
\* MongoDBCacheService.set computes expiresAt and sends updateOne
SetBegin(c, key, data, customTtlSeconds) ==
    /\ Ready(c)
    /\ memoryCache' = [memoryCache EXCEPT
                         ![key] = L1Entry(data, now, now, customTtlSeconds)]
    /\ clients' = [Touch(clients, {key}) EXCEPT ![c] =
          IF isConnected
          THEN Begun(c, "updateOne", key,
                     L2Entry(data, now + mongoTtl(key, customTtlSeconds),
                             now, customTtlSeconds))
          ELSE IdleClient]
    /\ setLog' = [setLog EXCEPT ![key] =
          [valid |-> ~WriterInFlight(c, key), done |-> ~isConnected,
           data |-> data, at |-> now, ttl |-> customTtlSeconds,
           l2 |-> "none",
           returned |-> IF isConnected THEN "none" ELSE SetReturns(TRUE),
           l1 |-> IF isConnected THEN Null ELSE data,
           aged |-> FALSE, kept |-> TRUE, cleared |-> "no",
           clearer |-> 0]]
    /\ ops' = ops + 1
    /\ UNCHANGED <<now, collection, isConnected, lastGet, fetchVars, feed, persist, enrich, ranked, timers>>

\* the updateOne of a set is applied by MongoDB, or fails; a failure is
\* caught and logged by MongoDBCacheService.set, and set returns
MongoUpdateOne(c, ok) ==
    /\ clients[c].pc = "updateOne"
    /\ collection' = IF ok
                     THEN [collection EXCEPT ![clients[c].key] = clients[c].doc]
                     ELSE collection
    /\ clients' = [clients EXCEPT ![c] = IdleClient]
    /\ setLog' = [setLog EXCEPT ![clients[c].key] =
          IF @.valid /\ @.at = clients[c].doc.setAt
          THEN [@ EXCEPT !.done = TRUE,
                         !.l2 = IF ok THEN "ok" ELSE "failed",
                         !.returned = SetReturns(ok),
                         !.l1 = L1Payload(memoryCache, clients[c].key),
                         !.aged = now # clients[c].doc.setAt]
          ELSE @]
    /\ UNCHANGED <<now, memoryCache, isConnected, lastGet, ops, fetchVars, feed, persist, enrich, ranked, timers>>

\* CacheService.get up to `await this.mongodbCache.get(key)`: an L1 hit
\* returns; otherwise findOne is sent, or, MongoDB not being connected,
\* MongoDBCacheService.get returns null at once
GetBegin(c, key) ==
    /\ Ready(c)
    /\ memoryCache' = L1AfterLookup(memoryCache, key, now)
    /\ LET clean == setLog[key].valid /\ setLog[key].done
       IN IF L1Fresh(memoryCache, key, now)
          THEN /\ lastGet' = GetReturns(key, memoryCache[key].data, "L1",
                                        memoryCache[key], clean,
                                        setLog[key].cleared = "done")
               /\ clients' = [clients EXCEPT
                     ![c] = IdleClient]
          ELSE IF isConnected
          THEN /\ lastGet' = lastGet
               /\ clients' = [clients EXCEPT
                     ![c] = Begun(c, "findOne", key, L2Absent)]
          ELSE /\ lastGet' = GetReturns(key, Null, "none", L2Absent, clean,
                                        setLog[key].cleared = "done")
               /\ clients' = [clients EXCEPT
                     ![c] = IdleClient]
    /\ ops' = ops + 1
    /\ UNCHANGED <<now, collection, isConnected, setLog, fetchVars, feed, persist, enrich, ranked, timers>>

\* MongoDB executes the findOne of a get
MongoFindOne(c) ==
    /\ clients[c].pc = "findOne"
    /\ clients' = [clients EXCEPT ![c].pc = "findReply",
                                  ![c].doc = collection[clients[c].key]]
    /\ UNCHANGED <<cacheVars, setLog, lastGet, ops, fetchVars, feed, persist, enrich, ranked, timers>>

\* the reply of findOne arrives: MongoDBCacheService.get checks expiresAt,
\* CacheService.get rehydrates L1 on a truthy result
GetResume(c) ==
    /\ clients[c].pc = "findReply"
    /\ LET doc == clients[c].doc
           key == clients[c].key
       IN IF L2Hit(doc, now)
          THEN /\ memoryCache' = [memoryCache EXCEPT ![key] =
                     L1Entry(doc.data, now, doc.setAt, doc.setTtl)]
               /\ lastGet' = GetReturns(key, doc.data, "L2", doc,
                                        clients[c].clean,
                                        clients[c].cleared)
               /\ setLog' = [setLog EXCEPT ![key] =
                     IF @.valid /\ @.returned = "none"
                     THEN [@ EXCEPT !.kept = FALSE] ELSE @]
          ELSE /\ memoryCache' = memoryCache
               /\ lastGet' = GetReturns(key, Null, "none", L2Absent,
                                        clients[c].clean,
                                        clients[c].cleared)
               /\ setLog' = setLog
    /\ clients' = [clients EXCEPT ![c] = IdleClient]
    /\ UNCHANGED <<now, collection, isConnected, ops, fetchVars, feed, persist, enrich, ranked, timers>>

\* CacheService.delete up to `await this.mongodbCache.delete(key)`
DeleteBegin(c, key) ==
    /\ Ready(c)
    /\ memoryCache' = [memoryCache EXCEPT ![key] = L1Absent]
    /\ clients' = [Touch(clients, {key}) EXCEPT ![c] =
          IF isConnected THEN Begun(c, "deleteOne", key, L2Absent)
          ELSE IdleClient]
    /\ setLog' = [setLog EXCEPT ![key] = NoSet]
    /\ ops' = ops + 1
    /\ UNCHANGED <<now, collection, isConnected, lastGet, fetchVars, feed, persist, enrich, ranked, timers>>

\* MongoDB executes the deleteOne of a delete, or fails (logged)
MongoDeleteOne(c, ok) ==
    /\ clients[c].pc = "deleteOne"
    /\ collection' = IF ok
                     THEN [collection EXCEPT ![clients[c].key] = L2Absent]
                     ELSE collection
    /\ clients' = [clients EXCEPT ![c] = IdleClient]
    /\ UNCHANGED <<now, memoryCache, isConnected, setLog, lastGet, ops, fetchVars,
                   feed, persist, enrich, ranked, timers>>

\* CacheService.clear up to `await this.mongodbCache.clear()`
ClearBegin(c) ==
    /\ Ready(c)
    /\ memoryCache' = [k \in CacheKeys |-> L1Absent]
    /\ clients' = [Touch(clients, CacheKeys) EXCEPT ![c] =
          IF isConnected THEN Begun(c, "deleteMany", TabNewsPage1, L2Absent)
          ELSE IdleClient]
    /\ setLog' = [k \in CacheKeys |->
          IF setLog[k].cleared = "done"
             \/ (setLog[k].done /\ ~isConnected)
          THEN [NoSet EXCEPT !.cleared = "done"]
          ELSE IF setLog[k].cleared = "pending"
          THEN [NoSet EXCEPT !.cleared = "pending",
                             !.clearer = setLog[k].clearer]
          ELSE IF setLog[k].done
          THEN [NoSet EXCEPT !.cleared = "pending", !.clearer = c]
          ELSE NoSet]
    /\ ops' = ops + 1
    /\ UNCHANGED <<now, collection, isConnected, lastGet, fetchVars, feed, persist, enrich, ranked, timers>>

\* MongoDB executes the deleteMany({}) of a clear, or fails (logged)
MongoDeleteMany(c, ok) ==
    /\ clients[c].pc = "deleteMany"
    /\ collection' = IF ok THEN [k \in CacheKeys |-> L2Absent] ELSE collection
    /\ clients' = [clients EXCEPT ![c] = IdleClient]
    /\ setLog' = [k \in CacheKeys |->
          IF setLog[k].cleared = "pending" /\ setLog[k].clearer = c
          THEN [setLog[k] EXCEPT !.cleared = "done", !.clearer = 0]
          ELSE setLog[k]]
    /\ UNCHANGED <<now, memoryCache, isConnected, lastGet, ops, fetchVars,
                   feed, persist, enrich, ranked, timers>>

\* The clock visits the instants around the TTL boundaries: the L1 lifetime
\* of a listing, its L2 lifetime, one L1 lifetime later, and just after the
\* L1 lifetime of a tech score; from there on it advances by TickStep.
NextInstant(t) ==
    IF t < L1_DEFAULT_TTL THEN L1_DEFAULT_TTL
    ELSE IF t < L2_DEFAULT_TTL THEN L2_DEFAULT_TTL
    ELSE IF t < L2_DEFAULT_TTL + L1_DEFAULT_TTL
         THEN L2_DEFAULT_TTL + L1_DEFAULT_TTL
    ELSE IF t < L1_TECH_SCORE_TTL + L1_DEFAULT_TTL
         THEN L1_TECH_SCORE_TTL + L1_DEFAULT_TTL
    ELSE t + TickStep

\* time passes
Tick ==
    /\ NextInstant(now) <= MaxNow
    /\ now' = NextInstant(now)
    /\ UNCHANGED <<memoryCache, collection, isConnected, clients, setLog,
                   lastGet, ops, fetchVars, feed, persist, enrich, ranked, timers>>

-----------------------------------------------------------------------------
(* The single-flight fetchers: TabNewsService.fetchPage,                   *)
(* HackerNewsService.fetchBatch and SmartMixService.fetchMix.  A target is *)
(* named by its cache key.                                                 *)

\* the calls request handlers make, and the calls doFetchEnrichAndRank of
\* attempt a makes (its i-th source)
CallIds == 1..MaxCalls
ChildCall(a, i) == MaxCalls + 2 * (a - 1) + i
AllCallIds == 1..(MaxCalls + 2 * MaxAttempts)
AttemptIds == 1..MaxAttempts
FetchTargets == {TabNewsPage1, HackerNewsBatch0, HackerNewsBatch1, SmartMixKey}

\* the keys of DevToService.fetchNews and LobstersService.fetchNews, which
\* keep no in-flight marker
NewsTargets == {DevToKey, LobstersKey}

Kind(target) ==
    IF target = TabNewsPage1 THEN "TabNews"
    ELSE IF target = SmartMixKey THEN "SmartMix"
    ELSE IF target = DevToKey THEN "DevTo"
    ELSE IF target = LobstersKey THEN "Lobsters"
    ELSE "HackerNews"

\* payload tokens: the empty array, and the item list attempt a produced
EmptyList == 1
ListOf(a) == a + 1

\* (prior: the lists that calls of the same target had returned when this
\* call started)
NoCall == [pc |-> "unused", target |-> TabNewsPage1, parent |-> 0,
           miss |-> FALSE, peers |-> {}, prior |-> {},
           doc |-> L2Absent, join |-> 0, owner |-> FALSE,
           status |-> "none", value |-> 0, error |-> 0]

NoAttempt == [pc |-> "unused", target |-> TabNewsPage1, status |-> "pending",
              outcome |-> "none", value |-> 0, error |-> 0, reqs |-> 0,
              doc |-> L2Absent, tw |-> "none", persist |-> "none"]

\* what the upstream can answer to the request of a physical fetch
UpstreamOutcomes(kind) ==
    IF kind = "TabNews" THEN {"ok", "empty", "non2xx", "neterr"}
    ELSE IF kind \in {"DevTo", "Lobsters"} THEN {"ok", "non2xx", "neterr"}
    ELSE {"ok", "neterr"}
IdsOutcomes == {"ok", "non2xx"}

Unused(f, ids) == {i \in ids : f[i].pc = "unused"}
FirstUnused(f, ids) == CHOOSE i \in Unused(f, ids) : \A j \in Unused(f, ids) : i <= j

\* a fetcher that never finds a fetch in progress
NoLockCheck(locks, target) == FALSE

\* `if (existingLock)`: a fetch of the target is in progress
ExistingLock(locks, target) == locks[target] # 0

\* a fetcher that deletes the in-flight marker after a success only
ReleaseLocksOnSuccess(locks, att, S) ==
    [t \in FetchTargets |->
        IF \E a \in S : att[a].target = t /\ att[a].status = "fulfilled"
        THEN 0 ELSE locks[t]]

\* the `finally` of the callers that own the (settled) attempts in S: the
\* in-flight markers of their targets are deleted, whatever the outcome
ReleaseLocks(locks, att, S) ==
    [t \in FetchTargets |->
        IF \E a \in S : att[a].target = t THEN 0 ELSE locks[t]]

\* the attempts in S settle with the given status (and error object)
SettleAttempts(att, S, status, error) ==
    [a \in AttemptIds |->
        IF a \in S
        THEN [att[a] EXCEPT !.pc = "settled", !.status = status,
                            !.error = error, !.doc = L2Absent]
        ELSE att[a]]

\* the callers awaiting a settled attempt (its owner and those that returned
\* existingLock) receive its result
ResumeAwaiters(cl, att) ==
    [c \in AllCallIds |->
        IF cl[c].pc = "awaitLock" /\ att[cl[c].join].pc = "settled"
        THEN [cl[c] EXCEPT
                !.pc = "done",
                !.status = IF att[cl[c].join].status = "fulfilled"
                           THEN "value" ELSE "error",
                !.value = att[cl[c].join].value,
                !.error = att[cl[c].join].error]
        ELSE cl[c]]

\* a call returns the cached payload
ReturnCached(call, data) ==
    [call EXCEPT !.pc = "done", !.status = "value", !.value = data,
                 !.doc = L2Absent]

\* the part of the state a call reads and writes while it runs
Running ==
    [mc |-> memoryCache, calls |-> calls, attempts |-> attempts,
     locks |-> fetchLocks, idsLock |-> topStoriesIdsFetchLock,
     idsReqs |-> idsRequests, ok |-> TRUE]

Becomes(st) ==
    /\ st.ok
    /\ memoryCache' = st.mc
    /\ calls' = st.calls
    /\ attempts' = st.attempts
    /\ fetchLocks' = st.locks
    /\ topStoriesIdsFetchLock' = st.idsLock
    /\ idsRequests' = st.idsReqs

\* doFetchPage / doFetchBatch / doFetchEnrichAndRank up to the first await
\* that suspends: the attempt that starts for the target
StartAttempt(st, target) ==
    IF Kind(target) \in {"TabNews", "DevTo", "Lobsters"}
    THEN [NoAttempt EXCEPT !.pc = "upstream", !.target = target, !.reqs = 1]
    ELSE IF Kind(target) = "SmartMix"
    THEN [NoAttempt EXCEPT !.pc = "children", !.target = target]
    ELSE IF topStoriesIds # 0
    THEN [NoAttempt EXCEPT !.pc = "upstream", !.target = target, !.reqs = 1]
    ELSE IF st.idsLock # 0
    THEN [NoAttempt EXCEPT !.pc = "idsWait", !.target = target]
    ELSE [NoAttempt EXCEPT !.pc = "idsFetch", !.target = target]

\* the calls of the same target that have started and not returned
InFlight(cl, target) ==
    {d \in AllCallIds : cl[d].target = target
                        /\ cl[d].pc \in {"findOne", "findReply", "awaitLock"}}

\* the lists that completed calls of the target have returned
Returned(cl, target) ==
    {cl[d].value : d \in {e \in AllCallIds : /\ cl[e].target = target
                                              /\ cl[e].pc = "done"
                                              /\ cl[e].status = "value"}}

RECURSIVE Enter(_, _, _, _)
RECURSIVE AfterMiss(_, _, _)

\* fetchPage / fetchBatch / fetchMix after the cache miss: return the lock in
\* place, or start the physical fetch and register it as the lock.  The
\* physical fetch of the mix calls fetchPage(1) and fetchBatch(0) on the spot.
AfterMiss(st, c, target) ==
    IF target \in NewsTargets
    THEN \* fetchNews: no marker is looked up or registered; the call sends
         \* its own request and awaits it
         IF Unused(st.attempts, AttemptIds) = {}
         THEN [st EXCEPT !.ok = FALSE]
         ELSE LET a == FirstUnused(st.attempts, AttemptIds)
              IN [st EXCEPT
                    !.attempts[a] = StartAttempt(st, target),
                    !.calls[c] = [@ EXCEPT !.pc = "awaitLock", !.join = a,
                                           !.owner = TRUE, !.doc = L2Absent]]
    ELSE IF ExistingLock(st.locks, target)
    THEN [st EXCEPT !.calls[c] =
            [@ EXCEPT !.pc = "awaitLock", !.join = st.locks[target],
                      !.doc = L2Absent]]
    ELSE IF Unused(st.attempts, AttemptIds) = {}
    THEN [st EXCEPT !.ok = FALSE]
    ELSE LET a == FirstUnused(st.attempts, AttemptIds)
             new == StartAttempt(st, target)
             st1 == [st EXCEPT
                       !.attempts[a] = new,
                       !.locks[target] = a,
                       !.idsLock = IF new.pc = "idsFetch" THEN a ELSE @,
                       !.idsReqs = IF new.pc = "idsFetch" THEN @ + 1 ELSE @,
                       !.calls[c] = [@ EXCEPT !.pc = "awaitLock", !.join = a,
                                              !.owner = TRUE,
                                              !.doc = L2Absent]]
         IN IF Kind(target) = "SmartMix"
            THEN Enter(Enter(st1, ChildCall(a, 1), TabNewsPage1, a),
                       ChildCall(a, 2), HackerNewsBatch0, a)
            ELSE st1

\* the first step of a call c for target: `await this.cacheService.get(key)`.
\* An L1 hit returns the cached payload.  On an L1 miss findOne is sent; with
\* MongoDB not connected the miss is final and the call goes on at once.
Enter(st, c, target, parent) ==
    LET base == [NoCall EXCEPT
                   !.target = target, !.parent = parent,
                   !.miss = ~L1Fresh(st.mc, target, now)
                            /\ ~L2Hit(collection[target], now),
                   !.peers = InFlight(st.calls, target),
                   !.prior = Returned(st.calls, target)]
        st1 == [st EXCEPT !.mc = L1AfterLookup(st.mc, target, now)]
    IN IF L1Fresh(st.mc, target, now)
       THEN [st1 EXCEPT !.calls[c] = ReturnCached(base, st.mc[target].data)]
       ELSE IF isConnected
       THEN [st1 EXCEPT !.calls[c] = [base EXCEPT !.pc = "findOne"]]
       ELSE AfterMiss([st1 EXCEPT !.calls[c] = [base EXCEPT !.pc = "findReply"]],
                      c, target)

\* a request handler calls fetchPage(1), fetchBatch(b) or fetchMix()
CallBegin(target) ==
    /\ Unused(calls, CallIds) # {}
    /\ Becomes(Enter(Running, FirstUnused(calls, CallIds), target, 0))
    /\ UNCHANGED <<now, collection, isConnected, topStoriesIds, clients,
                   setLog, lastGet, ops, feed, persist, enrich, ranked, timers>>

\* MongoDB executes the findOne of the call's cache lookup
CallFindOne(c) ==
    /\ calls[c].pc = "findOne"
    /\ calls' = [calls EXCEPT ![c].pc = "findReply",
                              ![c].doc = collection[calls[c].target]]
    /\ UNCHANGED <<cacheVars, attempts, fetchLocks, topStoriesIds,
                   topStoriesIdsFetchLock, idsRequests, clients, setLog,
                   lastGet, ops, feed, persist, enrich, ranked, timers>>

\* the reply of findOne arrives: the call returns the cached payload (L1 is
\* rehydrated) or goes on after the miss
CallResume(c) ==
    /\ calls[c].pc = "findReply"
    /\ LET doc == calls[c].doc
           target == calls[c].target
       IN IF L2Hit(doc, now)
          THEN Becomes([Running EXCEPT
                  !.mc[target] = L1Entry(doc.data, now, doc.setAt, doc.setTtl),
                  !.calls[c] = ReturnCached(@, doc.data)])
          ELSE Becomes(AfterMiss(Running, c, target))
    /\ UNCHANGED <<now, collection, isConnected, topStoriesIds, clients,
                   setLog, lastGet, ops, feed, persist, enrich, ranked, timers>>

\* what remains unchanged when only attempts settle or advance
FetchFrame == <<now, isConnected, clients, setLog, lastGet, ops, feed, persist, enrich, ranked, timers>>

\* attempts S settle: results recorded, locks released, awaiters resumed
Settle(att, S, status, error) ==
    /\ attempts' = SettleAttempts(att, S, status, error)
    /\ fetchLocks' = ReleaseLocks(fetchLocks,
                                  SettleAttempts(att, S, status, error), S)
    /\ calls' = ResumeAwaiters(calls, SettleAttempts(att, S, status, error))

\* a pipeline whose cache.set comes only after the persistAll it started has
\* settled
CacheSetAfterPersistAll(atts, a, value) ==
    LET target == atts[a].target
        att == [atts EXCEPT ![a].value = value]
    IN IF atts[a].persist = "running"
       THEN /\ attempts' = [atts EXCEPT ![a].pc = "persisting"]
            /\ UNCHANGED <<memoryCache, fetchLocks, calls>>
       ELSE /\ memoryCache' = [memoryCache EXCEPT ![target] =
                  L1Entry(value, now, now, NoTtl)]
            /\ IF isConnected
               THEN /\ attempts' = [att EXCEPT ![a].pc = "updateOne",
                          ![a].doc = L2Entry(value,
                                             now + mongoTtl(target, NoTtl),
                                             now, NoTtl)]
                    /\ UNCHANGED <<fetchLocks, calls>>
               ELSE Settle(att, {a}, "fulfilled", 0)

\* `await this.cacheService.set(cacheKey, value)` at the end of a physical
\* fetch: L1 is written at once; with MongoDB connected updateOne is sent
\* and the attempt settles when it is answered
CacheSetThenSettle(atts, a, value) ==
    LET target == atts[a].target
        att == [atts EXCEPT ![a].value = value]
    IN /\ memoryCache' = [memoryCache EXCEPT ![target] =
             L1Entry(value, now, now, NoTtl)]
       /\ IF isConnected
          THEN /\ attempts' = [att EXCEPT ![a].pc = "updateOne",
                     ![a].doc = L2Entry(value,
                                        now + mongoTtl(target, NoTtl),
                                        now, NoTtl)]
               /\ UNCHANGED <<fetchLocks, calls>>
          ELSE Settle(att, {a}, "fulfilled", 0)

\* The upstream answers the request of a TabNews page or of the items of a
\* Hacker News batch.
\*   TabNews: a non-2xx status and an empty page both RETURN [] and leave
\*   the cache alone; a network error rejects.
\*   Hacker News: any item that cannot be fetched rejects the batch.
\*   Dev.to: fetchRecentArticles catches a non-2xx status and a network
\*   error alike and returns []; fetchNews goes on and caches the empty
\*   list.
\*   Lobsters: a non-2xx status and a network error reject.
\* Otherwise the items are filtered by tech relevance (TabNews, Hacker News,
\* Dev.to) or ranked and sorted (Lobsters), and the list is cached.
UpstreamReply(a, outcome) ==
    /\ attempts[a].pc = "upstream"
    /\ outcome \in UpstreamOutcomes(Kind(attempts[a].target))
    /\ LET att == [attempts EXCEPT ![a].outcome = outcome]
           kind == Kind(attempts[a].target)
       IN IF kind = "DevTo" /\ outcome # "ok"
          THEN CacheSetThenSettle(att, a, EmptyList)
          ELSE IF kind = "Lobsters" /\ outcome # "ok"
          THEN /\ Settle(att, {a}, "rejected", a)
               /\ UNCHANGED memoryCache
          ELSE IF outcome = "neterr"
          THEN /\ Settle(att, {a}, "rejected", a)
               /\ UNCHANGED memoryCache
          ELSE IF outcome \in {"non2xx", "empty"}
          THEN /\ Settle([att EXCEPT ![a].value = EmptyList], {a},
                         "fulfilled", 0)
               /\ UNCHANGED memoryCache
          ELSE CacheSetThenSettle(att, a, ListOf(a))
    /\ UNCHANGED <<collection, topStoriesIds, topStoriesIdsFetchLock,
                   idsRequests>>
    /\ UNCHANGED FetchFrame

\* MongoDB answers the updateOne of the attempt's cache.set (a failure is
\* logged and swallowed); the attempt then settles
AttemptUpdateOne(a, ok) ==
    /\ attempts[a].pc = "updateOne"
    /\ collection' = IF ok
                     THEN [collection EXCEPT ![attempts[a].target] =
                              attempts[a].doc]
                     ELSE collection
    /\ Settle(attempts, {a}, "fulfilled", 0)
    /\ UNCHANGED <<memoryCache, topStoriesIds, topStoriesIdsFetchLock,
                   idsRequests>>
    /\ UNCHANGED FetchFrame

\* the attempts that `await this.topStoriesIdsFetchLock`
IdsWaiters == {b \in AttemptIds : attempts[b].pc = "idsWait"}

\* topstories.json is answered.  On success the ids are kept in memory and
\* every batch waiting for them requests its items; on a non-2xx status the
\* fetch of the ids throws and every batch waiting for it rejects with that
\* error.  The ids lock is cleared either way.
IdsReply(a, outcome) ==
    /\ attempts[a].pc = "idsFetch"
    /\ outcome \in IdsOutcomes
    /\ topStoriesIdsFetchLock' = 0
    /\ IF outcome = "ok"
       THEN /\ topStoriesIds' = 1
            /\ attempts' = [b \in AttemptIds |->
                  IF b \in IdsWaiters \cup {a}
                  THEN [attempts[b] EXCEPT !.pc = "upstream", !.reqs = 1]
                  ELSE attempts[b]]
            /\ UNCHANGED <<fetchLocks, calls>>
       ELSE /\ topStoriesIds' = topStoriesIds
            /\ Settle([b \in AttemptIds |->
                         IF b \in IdsWaiters \cup {a}
                         THEN [attempts[b] EXCEPT !.outcome = "idsFailed"]
                         ELSE attempts[b]],
                      IdsWaiters \cup {a}, "rejected", a)
    /\ UNCHANGED <<memoryCache, collection, idsRequests>>
    /\ UNCHANGED FetchFrame

\* the calls doFetchEnrichAndRank of attempt a made
ChildrenOf(a) == {ChildCall(a, 1), ChildCall(a, 2)}

\* settled results of the three sources of the mix
Rejected(status) == status = "error"

\* a mix that requires every source (Promise.all instead of allSettled)
AnySourceFailed(tab, hn, tw) == Rejected(tab) \/ Rejected(hn) \/ Rejected(tw)

\* `if (tabNews rejected && hn rejected && twitter rejected) throw`
AllSourcesFailed(tab, hn, tw) == Rejected(tab) /\ Rejected(hn) /\ Rejected(tw)

\* what TwitterService.fetchNews can settle with
TwitterOutcomes == {"value", "error"}

\* what the persistAll started by the pipeline can end with: every category
\* stored, some category failed (success = false), or a rejection
PersistOutcomes == {"ok", "failed", "rejected"}

\* a pipeline that awaits persistAll and lets its rejection through
Awaited == FALSE

\* `this.persistAll(...)` is not awaited; its rejection is caught and logged
Detached == TRUE

\* Promise.allSettled of the mix has settled: the mix rejects when every
\* source is rejected; otherwise it enriches, ranks and interleaves what the
\* fulfilled sources returned, starts persistAll, and caches the result
MixAllSettled(a, tw) ==
    /\ attempts[a].pc = "children"
    /\ \A c \in ChildrenOf(a) : calls[c].pc = "done"
    /\ tw \in TwitterOutcomes
    /\ LET tab == calls[ChildCall(a, 1)].status
           hn == calls[ChildCall(a, 2)].status
       IN IF AllSourcesFailed(tab, hn, tw)
          THEN /\ Settle([attempts EXCEPT ![a].outcome = "allFailed",
                                          ![a].tw = tw], {a},
                         "rejected", a)
               /\ UNCHANGED memoryCache
          ELSE LET att == [attempts EXCEPT ![a].outcome = "ok", ![a].tw = tw,
                                           ![a].persist = "running"]
               IN IF Detached
                  THEN CacheSetThenSettle(att, a, ListOf(a))
                  ELSE /\ attempts' = [att EXCEPT ![a].pc = "persisting"]
                       /\ UNCHANGED <<memoryCache, fetchLocks, calls>>
    /\ UNCHANGED <<collection, topStoriesIds, topStoriesIdsFetchLock,
                   idsRequests>>
    /\ UNCHANGED FetchFrame

\* the persistAll started by the pipeline of attempt a settles (its cache
\* set repeats the pipeline's own)
MixPersistSettles(a, outcome) ==
    /\ attempts[a].persist = "running"
    /\ outcome \in PersistOutcomes
    /\ LET att == [attempts EXCEPT ![a].persist = outcome]
       IN IF attempts[a].pc # "persisting"
          THEN /\ attempts' = att
               /\ UNCHANGED <<memoryCache, fetchLocks, calls>>
          ELSE IF outcome = "rejected"
          THEN /\ Settle(att, {a}, "rejected", a)
               /\ UNCHANGED memoryCache
          ELSE CacheSetThenSettle(att, a, ListOf(a))
    /\ UNCHANGED <<collection, topStoriesIds, topStoriesIdsFetchLock,
                   idsRequests>>
    /\ UNCHANGED FetchFrame

\* nothing of the feed composed yet
InitFeedIdle == feed = <<>>

\* no persistAll under way, nothing in the warehouse
InitPersistIdle == persist = <<>>

\* no item being scored or enriched
InitEnrichIdle == enrich = <<>>

\* no ranking pass made
InitRankIdle == ranked = <<>>

\* the status checker is not used
InitStatusIdle == timers = <<>>

InitFetch ==
    /\ calls = [c \in AllCallIds |-> NoCall]
    /\ attempts = [a \in AttemptIds |-> NoAttempt]
    /\ fetchLocks = [t \in FetchTargets |-> 0]
    /\ topStoriesIds = 0
    /\ topStoriesIdsFetchLock = 0
    /\ idsRequests = 0

FetchInit ==
    /\ now = 0
    /\ memoryCache = [k \in CacheKeys |-> L1Absent]
    /\ collection = [k \in CacheKeys |-> L2Absent]
    /\ isConnected \in BOOLEAN
    /\ clients = [c \in Clients |-> IdleClient]
    /\ setLog = [k \in CacheKeys |-> NoSet]
    /\ lastGet = NoGet
    /\ ops = 0
    /\ InitFetch
    /\ InitPersistIdle
    /\ InitFeedIdle
    /\ InitEnrichIdle
    /\ InitRankIdle
    /\ InitStatusIdle

\* the steps of the fetches under way
FetchSteps ==
    \/ \E c \in AllCallIds : CallFindOne(c)
    \/ \E c \in AllCallIds : CallResume(c)
    \/ \E a \in AttemptIds, o \in UpstreamOutcomes("TabNews") :
          UpstreamReply(a, o)
    \/ \E a \in AttemptIds, ok \in BOOLEAN : AttemptUpdateOne(a, ok)
    \/ \E a \in AttemptIds, o \in IdsOutcomes : IdsReply(a, o)

\* request handlers call the list fetchers
FetchNext ==
    \/ \E t \in FetchTargets \ {SmartMixKey} : CallBegin(t)
    \/ FetchSteps

\* request handlers call fetchMix
MixNext ==
    \/ CallBegin(SmartMixKey)
    \/ \E a \in AttemptIds, tw \in TwitterOutcomes : MixAllSettled(a, tw)
    \/ \E a \in AttemptIds, o \in PersistOutcomes : MixPersistSettles(a, o)
    \/ FetchSteps

\* the steps of the fetches of Dev.to and Lobsters under way
NewsSteps ==
    \/ \E c \in CallIds : CallFindOne(c)
    \/ \E c \in CallIds : CallResume(c)
    \/ \E a \in AttemptIds, o \in UpstreamOutcomes("Lobsters") :
          UpstreamReply(a, o)
    \/ \E a \in AttemptIds, ok \in BOOLEAN : AttemptUpdateOne(a, ok)

\* request handlers call DevToService.fetchNews and LobstersService.fetchNews
NewsNext ==
    \/ \E t \in NewsTargets : CallBegin(t)
    \/ NewsSteps

SpecFetch == FetchInit /\ [][FetchNext]_vars
SpecNews == FetchInit /\ [][NewsNext]_vars
SpecMix == FetchInit /\ [][MixNext]_vars

-----------------------------------------------------------------------------
(* Specification of the cache under direct use *)

InitCache ==
    /\ now = 0
    /\ memoryCache = [k \in CacheKeys |-> L1Absent]
    /\ collection = [k \in CacheKeys |-> L2Absent]
    /\ isConnected \in BOOLEAN
    /\ clients = [c \in Clients |-> IdleClient]
    /\ setLog = [k \in CacheKeys |-> NoSet]
    /\ lastGet = NoGet
    /\ ops = 0


CacheInit ==
    InitCache /\ InitFetch /\ InitFeedIdle /\ InitPersistIdle /\ InitEnrichIdle
    /\ InitRankIdle /\ InitStatusIdle

CacheNext ==
    \/ \E c \in Clients, key \in ClientKeys, data \in Values :
          \E ttl \in CustomTtls(key) : SetBegin(c, key, data, ttl)
    \/ \E c \in Clients, ok \in BOOLEAN : MongoUpdateOne(c, ok)
    \/ \E c \in Clients, key \in ClientKeys : GetBegin(c, key)
    \/ \E c \in Clients : MongoFindOne(c)
    \/ \E c \in Clients : GetResume(c)
    \/ \E c \in Clients, key \in ClientKeys : DeleteBegin(c, key)
    \/ \E c \in Clients, ok \in BOOLEAN : MongoDeleteOne(c, ok)
    \/ \E c \in Clients : ClearBegin(c)
    \/ \E c \in Clients, ok \in BOOLEAN : MongoDeleteMany(c, ok)
    \/ Tick

SpecCache == CacheInit /\ [][CacheNext]_vars

-----------------------------------------------------------------------------
(* Properties of the cache *)

\* the longest TTL that can apply to an entry: the TTL passed to set,
\* otherwise the longer of the two tiers' key-pattern TTLs
LongestTtl(key, ttl) ==
    IF ttl # NoTtl THEN ttl ELSE mongoGetCacheDurationSeconds(key)

\* the shortest TTL that can apply to an entry: the TTL passed to set,
\* otherwise the shorter of the two tiers' key-pattern TTLs
ShortestTtl(key, ttl) ==
    IF ttl # NoTtl THEN ttl ELSE getCacheDurationSeconds(key)

\* C6: get never returns a value once the time elapsed since set stored that
\* value exceeds the TTL that applies to it, whichever tier serves the read.
C6_NeverServedPastTtl ==
    lastGet.result # Null =>
        lastGet.returnedAt - lastGet.setAt
            <= LongestTtl(lastGet.key, lastGet.setTtl)

\* C7: a get issued after set(key, v) has completed, and returning within the
\* TTL window, returns exactly v, provided nothing else wrote the key in
\* between.
C7_RoundTrip ==
    (/\ lastGet.clean
     /\ lastGet.returnedAt - lastGet.sentAt
            <= ShortestTtl(lastGet.key, lastGet.sentTtl))
        => lastGet.result = lastGet.sent

-----------------------------------------------------------------------------
(* The composition of the mix and of the unified feed, from what the       *)
(* upstreams answer (cold caches): SmartMixService.doFetchEnrichAndRank    *)
(* and FeedService.fetchFeed.                                              *)

\* an item: ids are unique within a source and carry the source's namespace
\* (TabNews uuid, String(hn id), `devto-${id}`, `lobsters-${short_id}`)
Item(source, n, score) == [id |-> <<source, n>>, source |-> source,
                           score |-> score]

\* how the scores of an upstream list run: rising, falling, or all equal
ScoreShapes == {"asc", "desc", "flat"}
ScoreOf(shape, i, k) ==
    IF shape = "asc" THEN i ELSE IF shape = "desc" THEN k + 1 - i ELSE 1

\* the k items an upstream delivers
Payload(source, k, shape) ==
    [i \in 1..k |-> Item(source, i, ScoreOf(shape, i, k))]

Fulfilled(items) == [status |-> "value", items |-> items, reason |-> ""]
RejectedWith(reason) == [status |-> "error", items |-> <<>>, reason |-> reason]

\* TabNewsService.fetchPage(1): [] on a non-2xx status, rejects on a network
\* error
TabNewsFetchPage(up, shape) ==
    IF up.outcome = "ok" THEN Fulfilled(Payload("TabNews", up.n, shape))
    ELSE IF up.outcome = "non2xx" THEN Fulfilled(<<>>)
    ELSE RejectedWith("fetch failed")

\* HackerNewsService.fetchBatch(0)
HackerNewsFetchBatch(up, shape) ==
    IF up.outcome = "ok" THEN Fulfilled(Payload("HackerNews", up.n, shape))
    ELSE RejectedWith("Falha ao carregar IDs do Hacker News")

\* TwitterService.fetchNews()
TwitterFetchNews(up, shape) ==
    IF up.outcome = "ok" THEN Fulfilled(Payload("Twitter", up.n, shape))
    ELSE RejectedWith("twitter failed")

\* DevToService.fetchNews(): every error is caught and [] is returned
DevToFetchNews(up, shape) ==
    IF up.outcome = "ok" THEN Fulfilled(Payload("DevTo", up.n, shape))
    ELSE Fulfilled(<<>>)

\* LobstersService.fetchNews(): errors are logged and rethrown
LobstersFetchNews(up, shape) ==
    IF up.outcome = "ok" THEN Fulfilled(Payload("Lobsters", up.n, shape))
    ELSE RejectedWith("Lobsters API error")

\* Array.prototype.sort((a, b) => b.score - a.score): stable, highest first
RECURSIVE InsertByScore(_, _)
InsertByScore(x, s) ==
    IF s = <<>> THEN <<x>>
    ELSE IF Head(s).score > x.score
    THEN <<Head(s)>> \o InsertByScore(x, Tail(s))
    ELSE <<x>> \o s

RECURSIVE SortByScore(_)
SortByScore(s) ==
    IF s = <<>> THEN <<>> ELSE InsertByScore(Head(s), SortByScore(Tail(s)))

MaxLength(lists) ==
    LET lens == {Len(lists[j]) : j \in DOMAIN lists}
    IN CHOOSE m \in lens : \A l \in lens : l <= m

\* for i = 0 .. maxLength - 1: push the i-th item of every list that has one
RECURSIVE InterleaveFrom(_, _)
InterleaveFrom(lists, i) ==
    IF i > MaxLength(lists) THEN <<>>
    ELSE LET RECURSIVE Row(_)
             Row(j) == IF j > Len(lists) THEN <<>>
                       ELSE (IF i <= Len(lists[j]) THEN <<lists[j][i]>>
                             ELSE <<>>) \o Row(j + 1)
         IN Row(1) \o InterleaveFrom(lists, i + 1)

\* the lists one after the other
RECURSIVE concatenate(_)
concatenate(lists) ==
    IF lists = <<>> THEN <<>> ELSE Head(lists) \o concatenate(Tail(lists))

interleave(lists) == InterleaveFrom(lists, 1)

\* doFetchEnrichAndRank on the settled results of its three sources: it
\* throws when all three are rejected; otherwise each source's items are
\* ranked (sorted by score, highest first) and interleaved
doFetchEnrichAndRank(tab, hn, tw) ==
    IF AllSourcesFailed(tab.status, hn.status, tw.status)
    THEN RejectedWith("Nao foi possivel carregar nenhuma fonte de noticias.")
    ELSE Fulfilled(interleave(<<SortByScore(tab.items), SortByScore(hn.items),
                                SortByScore(tw.items)>>))

\* handleSourceResult
handleSourceResult(result) ==
    IF result.status = "value"
    THEN [items |-> result.items, error |-> ""]
    ELSE [items |-> <<>>, error |-> result.reason]

FeedSources == <<"TabNews", "HackerNews", "DevTo", "Lobsters">>

\* `after` not given, and the null nextCursor
NoCursor == <<"", 0>>

\* a lookup that lands on the last item when no item has the id
findIndexOrLast(feedItems, after) ==
    LET hits == {i \in 1..Len(feedItems) : feedItems[i].id = after}
    IN IF hits = {} THEN Len(feedItems) - 1
       ELSE (CHOOSE i \in hits : \A j \in hits : i <= j) - 1

\* feedItems.findIndex((item) => item.id === after): the 0-based index of
\* the first item with the id, -1 when there is none
findIndex(feedItems, after) ==
    LET hits == {i \in 1..Len(feedItems) : feedItems[i].id = after}
    IN IF hits = {} THEN -1
       ELSE (CHOOSE i \in hits : \A j \in hits : i <= j) - 1

\* a cursor with the id of the item before the page (an unknown id leaves 0)
StartIdxAtCursor(feedItems, after) ==
    LET hits == {i \in 1..Len(feedItems) : feedItems[i].id = after}
    IN IF after # NoCursor /\ hits # {}
       THEN (CHOOSE i \in hits : \A j \in hits : i <= j) - 1
       ELSE 0

\* the 0-based index the page starts at: `findIndex(item.id === after) + 1`
\* when the cursor is given and found, else 0
StartIdx(feedItems, after) ==
    IF after # NoCursor /\ findIndex(feedItems, after) >= 0
    THEN findIndex(feedItems, after) + 1
    ELSE 0

Min(a, b) == IF a < b THEN a ELSE b

\* Array.prototype.slice(from, to), 0-based, end exclusive
Slice(seq, from, to) == SubSeq(seq, from + 1, Min(to, Len(seq)))

\* FeedService.fetchFeed on the settled results of fetchMix, DevTo and
\* Lobsters
fetchFeed(limit, after, mixResult, devToResult, lobstersResult) ==
    LET mixData == handleSourceResult(mixResult)
        devToData == handleSourceResult(devToResult)
        lobstersData == handleSourceResult(lobstersResult)
        allNews == mixData.items \o devToData.items \o lobstersData.items
        bySource(name) ==
            LET From(x) == x.source = name
            IN SortByScore(SelectSeq(allNews, From))
        errors == <<mixData.error, mixData.error, devToData.error,
                    lobstersData.error>>
        sources == [i \in 1..Len(FeedSources) |->
                      [name |-> FeedSources[i],
                       ok |-> errors[i] = "",
                       error |-> errors[i],
                       itemCount |-> Len(bySource(FeedSources[i]))]]
        interleaved == interleave([i \in 1..Len(FeedSources) |->
                                     bySource(FeedSources[i])])
        startIdx == StartIdx(interleaved, after)
        finalItems == Slice(interleaved, startIdx, startIdx + limit)
    IN [items |-> finalItems,
        nextCursor |-> IF Len(finalItems) = limit
                       THEN finalItems[Len(finalItems)].id ELSE NoCursor,
        sources |-> sources,
        all |-> interleaved]

\* what an upstream answers: ok with n items, or a failure
Upstreams(failures, maxN) ==
    {[outcome |-> "ok", n |-> n] : n \in 0..maxN}
        \cup {[outcome |-> f, n |-> 0] : f \in failures}

Limits == 1..MaxLimit

NoResponse == [items |-> <<>>, nextCursor |-> NoCursor, sources |-> <<>>,
               all |-> <<>>]

\* the settled results of the sources of one composition
MixOf(f) ==
    doFetchEnrichAndRank(TabNewsFetchPage(f.tab, f.shape),
                         HackerNewsFetchBatch(f.hn, f.shape),
                         TwitterFetchNews(f.tw, f.shape))

Compose(f, limit, after) ==
    fetchFeed(limit, after, MixOf(f), DevToFetchNews(f.devto, f.shape),
              LobstersFetchNews(f.lobsters, f.shape))

\* GET /api/feed?limit=: the first page
FetchFeed(limit) ==
    /\ feed.phase = "idle"
    /\ feed' = [feed EXCEPT !.phase = "first", !.limit = limit,
                            !.mix = MixOf(feed),
                            !.first = Compose(feed, limit, NoCursor)]
    /\ UNCHANGED <<cacheVars, clients, setLog, lastGet, ops, fetchVars, persist, enrich, ranked, timers>>

\* the cursors a client may send: the nextCursor it was given, the id of the
\* last or of the first item it was shown, or an id the feed never had
Cursors ==
    {feed.first.nextCursor, <<"unknown", 0>>}
        \cup {feed.first.items[i].id : i \in {1, Len(feed.first.items)}
                                              \cap DOMAIN feed.first.items}

\* GET /api/feed?limit=&after=: a second request, the upstreams answering
\* as before
FetchFeedAfter(limit) ==
    /\ feed.phase = "first"
    /\ \E after \in Cursors :
          feed' = [feed EXCEPT !.phase = "second", !.limit2 = limit,
                               !.after = after,
                               !.second = Compose(feed, limit, after)]
    /\ UNCHANGED <<cacheVars, clients, setLog, lastGet, ops, fetchVars, persist, enrich, ranked, timers>>

FeedInit ==
    /\ now = 0
    /\ memoryCache = [k \in CacheKeys |-> L1Absent]
    /\ collection = [k \in CacheKeys |-> L2Absent]
    /\ isConnected = FALSE
    /\ clients = [c \in Clients |-> IdleClient]
    /\ setLog = [k \in CacheKeys |-> NoSet]
    /\ lastGet = NoGet
    /\ ops = 0
    /\ InitFetch
    /\ InitPersistIdle
    /\ InitEnrichIdle
    /\ InitRankIdle
    /\ InitStatusIdle
    /\ \E tab \in Upstreams({"non2xx", "neterr"}, MaxItems),
          hn \in Upstreams({"neterr"}, MaxItems),
          tw \in Upstreams({"neterr"}, MaxTweets),
          devto \in Upstreams({"neterr"}, MaxItems),
          lobsters \in Upstreams({"neterr"}, MaxItems),
          shape \in ScoreShapes :
          feed = [phase |-> "idle", tab |-> tab, hn |-> hn, tw |-> tw,
                  devto |-> devto, lobsters |-> lobsters, shape |-> shape,
                  limit |-> 0, limit2 |-> 0, after |-> NoCursor,
                  mix |-> Fulfilled(<<>>),
                  first |-> NoResponse, second |-> NoResponse]

FeedNext ==
    \/ \E limit \in Limits : FetchFeed(limit)
    \/ \E limit \in Limits : FetchFeedAfter(limit)

SpecFeed == FeedInit /\ [][FeedNext]_vars

-----------------------------------------------------------------------------
(* Durable persistence: PersistenceService.persistAll with its retries and *)
(* the writes of DataWarehouseService.                                     *)

\* PersistenceService.defaultRetryConfig
maxRetries == 3
baseDelayMs == 100
maxDelayMs == 2000

RECURSIVE Pow2(_)
Pow2(n) == IF n = 0 THEN 1 ELSE 2 * Pow2(n - 1)

\* Math.min(baseDelayMs * Math.pow(2, attempt - 1), maxDelayMs)
RetryDelay(attempt) == Min(baseDelayMs * Pow2(attempt - 1), maxDelayMs)

\* a withRetry that goes on after the last attempt failed
RetryAlways(attempt) == TRUE

\* `attempt < config.maxRetries`: another attempt follows a failure
RetryAgain(attempt) == attempt < maxRetries

\* the data handed to persistAll: the lists of each category
PersistData ==
    <<[cat |-> "raw", source |-> "TabNews"],
      [cat |-> "ranked", source |-> "TabNews"],
      [cat |-> "mixed", source |-> "mixed"]>>
PersistOps == DOMAIN PersistData
Categories == {"raw", "enriched", "ranked", "mixed"}
PersistItems == 1..MaxPersistItems

\* what MongoDB does with a write: applies it and acknowledges, rejects it,
\* or applies it while the acknowledgement is lost (the driver throws)
WriteOutcomes == {"ok", "fail", "lost"}

\* bulk.find({ _id }).upsert().updateOne({ $set: entry })
Upsert(store, doc) ==
    {d \in store : ~(d.coll = doc.coll /\ d.id = doc.id)} \cup {doc}

RECURSIVE UpsertAll(_, _)
UpsertAll(store, docs) ==
    IF docs = {} THEN store
    ELSE LET d == CHOOSE x \in docs : TRUE
         IN UpsertAll(Upsert(store, d), docs \ {d})

\* saveRawNews / saveRankedNews: one document per item, _id built from the
\* source (and the stage) and the item id, stamped with the time of the write
saveNews(store, o, stamp) ==
    UpsertAll(store,
        {[coll |-> PersistData[o].cat,
          id |-> <<PersistData[o].source, PersistData[o].cat, i>>,
          data |-> {i}, at |-> stamp] : i \in PersistItems})

\* saveMixedFeed: insertOne of a document with _id `mixed:${Date.now()}`
saveMixedFeed(store, o, stamp, t) ==
    store \cup {[coll |-> "mixed", id |-> <<"mixed", "mixed", t>>,
                 data |-> PersistItems, at |-> stamp]}

\* the write of operation o, made at its invocation number stamp
Written(p, o, stamp) ==
    IF PersistData[o].cat = "mixed"
    THEN saveMixedFeed(p.store, o, stamp, p.inserts + 1)
    ELSE saveNews(p.store, o, stamp)

Terminal(op) == op.pc \in {"ok", "thrown"}

\* persistRawNews / persistRankedNews / persistMixedFeed: { success }
OpSuccess(op) == op.pc = "ok"

\* a result whose flags all follow the worst category
AnyCategoryFailed(pops, cat) ==
    \A o \in PersistOps : OpSuccess(pops[o])

\* results[cat].success: the conjunction over the operations of the category
CategorySuccess(pops, cat) ==
    \A o \in PersistOps : PersistData[o].cat = cat => OpSuccess(pops[o])

\* results[cat].count: the sum of persistedCount over the category
CategoryCount(pops, cat) ==
    Cardinality({o \in PersistOps : PersistData[o].cat = cat
                                    /\ cat # "mixed" /\ OpSuccess(pops[o])})
        * MaxPersistItems

PersistResults(pops) ==
    [cat \in Categories |->
        [success |-> CategorySuccess(pops, cat),
         count |-> CategoryCount(pops, cat)]]

\* the processing logs written so far: logBatch of persistRawNews (success
\* and failure), of persistRankedNews (success only), and the log of
\* persistMixedFeed once the warehouse write and the cache set have settled
LogsFor(pops, cacheSet) ==
    {<<PersistData[o].cat, PersistData[o].source, OpSuccess(pops[o])>> :
        o \in {x \in PersistOps :
                 /\ Terminal(pops[x])
                 /\ PersistData[x].cat = "ranked" => OpSuccess(pops[x])
                 /\ PersistData[x].cat = "mixed" => cacheSet = "done"}}

NoOp == [pc |-> "idle", attempt |-> 0, applied |-> 0]

\* the sleeps withRetry has begun for the operation, with their delays
Waits(op) ==
    [k \in 1..(IF op.pc = "sleep" THEN op.attempt ELSE op.attempt - 1) |->
        RetryDelay(k)]

NoResults == [cat \in Categories |-> [success |-> TRUE, count |-> 0]]

PersistFrame == <<now, clients, setLog, lastGet, ops, fetchVars, feed,
                  enrich, ranked, timers>>

\* persistAll(data): every operation is started at once; each one invokes
\* its warehouse write through withRetry.  With the warehouse not connected
\* the writes return at once.  persistMixedFeed also sets the mix in the
\* cache.
PersistAllBegin ==
    /\ persist.phase = "idle"
    /\ persist' = [persist EXCEPT
          !.phase = "running",
          !.ops = [o \in PersistOps |->
                     [NoOp EXCEPT !.pc = IF persist.connected THEN "call"
                                         ELSE "ok",
                                  !.attempt = 1]],
          !.cacheSet = IF isConnected THEN "updateOne" ELSE "done",
          !.logs = LogsFor([o \in PersistOps |->
                              [NoOp EXCEPT !.pc = IF persist.connected
                                                  THEN "call" ELSE "ok"]],
                           IF isConnected THEN "updateOne" ELSE "done")]
    /\ memoryCache' = [memoryCache EXCEPT ![SmartMixKey] =
          L1Entry(EmptyList + 1, now, now, NoTtl)]
    /\ UNCHANGED <<collection, isConnected>>
    /\ UNCHANGED PersistFrame

\* MongoDB answers the updateOne of the cache set of persistMixedFeed
PersistCacheUpdateOne(ok) ==
    /\ persist.phase = "running"
    /\ persist.cacheSet = "updateOne"
    /\ collection' = IF ok
                     THEN [collection EXCEPT ![SmartMixKey] =
                              L2Entry(EmptyList + 1,
                                      now + mongoTtl(SmartMixKey, NoTtl),
                                      now, NoTtl)]
                     ELSE collection
    /\ persist' = [persist EXCEPT !.cacheSet = "done",
                                  !.logs = LogsFor(persist.ops, "done")]
    /\ UNCHANGED <<memoryCache, isConnected>>
    /\ UNCHANGED PersistFrame

\* the warehouse write of operation o settles.  withRetry returns on a
\* success; after a failure it sleeps and invokes the write again while
\* attempts remain, and throws the last error otherwise.
WriteSettles(o, outcome) ==
    /\ persist.phase = "running"
    /\ persist.ops[o].pc = "call"
    /\ LET op == persist.ops[o]
           landed == outcome \in {"ok", "lost"}
           next ==
             IF outcome = "ok"
             THEN [op EXCEPT !.pc = "ok"]
             ELSE IF RetryAgain(op.attempt)
             THEN [op EXCEPT !.pc = "sleep"]
             ELSE [op EXCEPT !.pc = "thrown"]
           pops == [persist.ops EXCEPT ![o] =
                      [next EXCEPT !.applied = IF landed THEN @ + 1 ELSE @]]
       IN persist' = [persist EXCEPT
             !.ops = pops,
             !.store = IF landed THEN Written(persist, o, op.attempt) ELSE @,
             !.inserts = IF landed /\ PersistData[o].cat = "mixed"
                         THEN @ + 1 ELSE @,
             !.logs = LogsFor(pops, persist.cacheSet)]
    /\ UNCHANGED cacheVars
    /\ UNCHANGED PersistFrame

\* the sleep of withRetry is over: the next attempt invokes the write
RetryWakes(o) ==
    /\ persist.phase = "running"
    /\ persist.ops[o].pc = "sleep"
    /\ persist' = [persist EXCEPT
          !.ops[o] = [@ EXCEPT !.pc = "call", !.attempt = @ + 1]]
    /\ UNCHANGED cacheVars
    /\ UNCHANGED PersistFrame

\* Promise.allSettled(operations) has settled: persistAll returns results
PersistAllReturns ==
    /\ persist.phase = "running"
    /\ \A o \in PersistOps : Terminal(persist.ops[o])
    /\ persist.cacheSet = "done"
    /\ persist' = [persist EXCEPT !.phase = "done",
                                  !.results = PersistResults(persist.ops)]
    /\ UNCHANGED cacheVars
    /\ UNCHANGED PersistFrame

PersistInit ==
    /\ now = 0
    /\ memoryCache = [k \in CacheKeys |-> L1Absent]
    /\ collection = [k \in CacheKeys |-> L2Absent]
    /\ isConnected \in BOOLEAN
    /\ clients = [c \in Clients |-> IdleClient]
    /\ setLog = [k \in CacheKeys |-> NoSet]
    /\ lastGet = NoGet
    /\ ops = 0
    /\ InitFetch
    /\ InitFeedIdle
    /\ InitEnrichIdle
    /\ InitRankIdle
    /\ InitStatusIdle
    /\ \E connected \in BOOLEAN :
          persist = [phase |-> "idle", connected |-> connected,
                     ops |-> [o \in PersistOps |-> NoOp],
                     store |-> {}, inserts |-> 0, cacheSet |-> "none",
                     logs |-> {}, results |-> NoResults]

PersistNext ==
    \/ PersistAllBegin
    \/ \E ok \in BOOLEAN : PersistCacheUpdateOne(ok)
    \/ \E o \in PersistOps, outcome \in WriteOutcomes : WriteSettles(o, outcome)
    \/ \E o \in PersistOps : RetryWakes(o)
    \/ PersistAllReturns

SpecPersist == PersistInit /\ [][PersistNext]_vars

-----------------------------------------------------------------------------
(* Properties of the single-flight fetchers *)

ListTargets == FetchTargets \ {SmartMixKey}

\* two calls of one target that overlapped, both started while the target
\* was cached in neither tier, and both went past the lock check
Duplicates(c, d) ==
    /\ d \in calls[c].peers
    /\ calls[c].miss /\ calls[d].miss
    /\ calls[c].join # 0 /\ calls[d].join # 0

Outstanding(target) ==
    {a \in AttemptIds : attempts[a].target = target
                        /\ attempts[a].pc \notin {"unused", "settled"}}

\* the upstream did not deliver what the physical fetch asked for
UpstreamFailed(a) ==
    attempts[a].outcome \in {"non2xx", "neterr", "idsFailed", "allFailed"}

\* C1: concurrent duplicate calls of a list fetcher that start while the key
\* is not cached are served by one physical fetch: they hold the same
\* in-flight fetch, which made at most one upstream request
C1_SingleFlight ==
    \A c \in AllCallIds : \A d \in calls[c].peers :
        (calls[c].target \in ListTargets /\ Duplicates(c, d))
            => /\ calls[c].join = calls[d].join
               /\ attempts[calls[c].join].reqs <= 1

C3_OneOutstanding ==
    \A t \in FetchTargets : Cardinality(Outstanding(t)) <= 1

\* a second call of a key found the fetch of the first in progress and holds
\* it instead of starting one
C3_Witness ==
    \E c, d \in AllCallIds :
        /\ c # d
        /\ calls[c].pc = "awaitLock" /\ calls[c].owner
        /\ calls[d].pc = "awaitLock" /\ ~calls[d].owner
        /\ calls[d].join = calls[c].join
        /\ Outstanding(calls[c].target) = {calls[c].join}

\* C4: when the physical fetch of a key fails, its owner and every caller
\* awaiting it receive the same error, and no second request is made for
\* them
C4_FailurePropagates ==
    \A a \in AttemptIds :
        (attempts[a].pc = "settled" /\ UpstreamFailed(a))
            => /\ attempts[a].reqs <= 1
               /\ \A c \in AllCallIds :
                     (calls[c].join = a /\ calls[c].pc = "done")
                         => /\ calls[c].status = "error"
                            /\ calls[c].error = attempts[a].error

\* C5: concurrent duplicate requests for the mix that start while the mix is
\* not cached share one run of the pipeline
C5_MixSingleFlight ==
    \A c \in CallIds : \A d \in calls[c].peers :
        (calls[c].target = SmartMixKey /\ Duplicates(c, d))
            => calls[c].join = calls[d].join

-----------------------------------------------------------------------------
(* Properties of the composition *)

Ids(items) == {items[i].id : i \in DOMAIN items}
SourcesIn(items) == {items[i].source : i \in DOMAIN items}

\* the upstreams of the composition, by source
UpstreamOf == [TabNews |-> feed.tab, HackerNews |-> feed.hn,
               Twitter |-> feed.tw, DevTo |-> feed.devto,
               Lobsters |-> feed.lobsters]
MixSourceNames == {"TabNews", "HackerNews", "Twitter"}
SourceNames == DOMAIN UpstreamOf
FailedSources == {n \in SourceNames : UpstreamOf[n].outcome # "ok"}

\* the second request repeats the limit and passes the id of the last item
\* of the (non-empty) first page
ContinuesFirstPage ==
    /\ feed.phase = "second"
    /\ feed.limit2 = feed.limit
    /\ feed.first.items # <<>>
    /\ feed.after = feed.first.items[Len(feed.first.items)].id

\* C8: over an unchanged interleaved sequence, the page requested with the
\* id of the last item of the first page as cursor holds exactly the items
\* that follow the first page, and the two pages share no item
C8_Continuation ==
    ContinuesFirstPage =>
        LET k == Len(feed.first.items)
            all == feed.first.all
        IN /\ feed.second.all = all
           /\ feed.second.items = SubSeq(all, k + 1, Min(k + feed.limit, Len(all)))
           /\ Ids(feed.first.items) \cap Ids(feed.second.items) = {}

\* a second page that continues the first one with items of its own
C8_Witness ==
    /\ ContinuesFirstPage
    /\ feed.second.items # <<>>
    /\ Len(feed.first.all) > Len(feed.first.items) + Len(feed.second.items)

\* C9: when every content source fails, the feed is composed without an
\* exception, with no items and with ok = false for every source
C9_AllSourcesFail ==
    (feed.phase # "idle" /\ FailedSources = SourceNames)
        => /\ feed.first.items = <<>>
           /\ \A i \in DOMAIN feed.first.sources : ~feed.first.sources[i].ok

\* C10: a failed source does not fail the response: when a source of the mix
\* succeeds the mix is composed, the feed is composed whatever fails, and a
\* failed source contributes no item to either
C10_PartialFailure ==
    feed.phase # "idle" =>
        /\ (MixSourceNames \ FailedSources # {}) => feed.mix.status = "value"
        /\ SourcesIn(feed.mix.items) \cap FailedSources = {}
        /\ SourcesIn(feed.first.all) \cap FailedSources = {}
        /\ Len(feed.first.sources) = Len(FeedSources)

\* a source of the mix and a source of the feed failed, and the items of the
\* sources that succeeded are served
C10_Witness ==
    /\ feed.phase # "idle"
    /\ "TabNews" \in FailedSources /\ "Lobsters" \in FailedSources
    /\ feed.mix.status = "value"
    /\ {"HackerNews", "DevTo"} \subseteq SourcesIn(feed.first.items)

\* C11: the sources array reports each source on its own: ok = false, with
\* an error message, exactly when that source's fetch failed in this
\* composition, and ok = true otherwise
C11_PerSourceStatus ==
    feed.phase # "idle" =>
        \A i \in DOMAIN feed.first.sources :
            LET st == feed.first.sources[i]
            IN /\ st.ok <=> st.name \notin FailedSources
               /\ ~st.ok => st.error # ""

-----------------------------------------------------------------------------
(* Properties of persistence *)

OpsOf(cat) == {o \in PersistOps : PersistData[o].cat = cat}
DocsOf(o) ==
    {d \in persist.store : d.coll = PersistData[o].cat
                           /\ d.id[1] = PersistData[o].source}

C13_BoundedRetry ==
    /\ [](persist.phase # "idle" =>
            \A o \in PersistOps :
               /\ persist.ops[o].attempt \in 1..maxRetries
               /\ Len(Waits(persist.ops[o])) < maxRetries
               /\ persist.ops[o].pc = "thrown" =>
                     /\ persist.ops[o].attempt = maxRetries
                     /\ Len(Waits(persist.ops[o])) = maxRetries - 1)
    /\ [][persist.phase # "idle" =>
            \A o \in PersistOps :
               /\ persist'.ops[o].attempt # persist.ops[o].attempt
                     => /\ persist.ops[o].pc = "sleep"
                        /\ persist'.ops[o].attempt = persist.ops[o].attempt + 1
               /\ Terminal(persist.ops[o])
                     => persist'.ops[o] = persist.ops[o]]_vars

\* a write given up after its 3rd failure, with the two sleeps before it
C13_Witness ==
    \E o \in PersistOps :
        /\ persist.ops[o].pc = "thrown"
        /\ persist.ops[o].attempt = maxRetries
        /\ Waits(persist.ops[o]) = <<RetryDelay(1), RetryDelay(2)>>

\* C14: every durable write is an idempotent upsert: however often a write
\* was carried out, the store holds the documents one write leaves
C14_IdempotentWrites ==
    persist.phase # "idle" =>
        \A o \in PersistOps :
            persist.ops[o].applied >= 1 =>
                Cardinality(DocsOf(o)) =
                    IF PersistData[o].cat = "mixed" THEN 1
                    ELSE Cardinality(PersistItems)

-----------------------------------------------------------------------------
(* Further properties of the fetchers and of the mix *)

MixAttempts == {a \in AttemptIds : attempts[a].pc # "unused"
                                   /\ attempts[a].target = SmartMixKey}

\* C15: what persistAll ends with never reaches the response: a pipeline
\* whose sources did not all fail returns its mix, whether persistAll is
\* still running, stored everything, reports success = false, or rejects
C15_PersistenceDetached ==
    \A a \in MixAttempts :
        (attempts[a].pc = "settled" /\ attempts[a].outcome = "ok")
            => /\ attempts[a].status = "fulfilled"
               /\ attempts[a].value = ListOf(a)
               /\ \A c \in CallIds :
                     (calls[c].pc = "done" /\ calls[c].join = a)
                         => calls[c].status = "value"
                            /\ calls[c].value = ListOf(a)

\* persistAll rejected and the caller of fetchMix has the mix
C15_Witness ==
    \E a \in MixAttempts : \E c \in CallIds :
        /\ attempts[a].persist = "rejected"
        /\ calls[c].pc = "done" /\ calls[c].join = a
        /\ calls[c].status = "value" /\ calls[c].value = ListOf(a)

\* C16: a non-2xx answer of a source API is a hard failure of the page: the
\* fetch rejects, and so does every call of the page that awaited it
C16_Non2xxRejects ==
    \A a \in AttemptIds :
        (attempts[a].pc = "settled" /\ attempts[a].outcome = "non2xx")
            => /\ attempts[a].status = "rejected"
               /\ \A c \in AllCallIds :
                     (calls[c].pc = "done" /\ calls[c].join = a)
                         => calls[c].status = "error"

\* the upstream request made for the call failed
SourceRequestFailed(c) ==
    calls[c].join # 0 /\ UpstreamFailed(calls[c].join)

\* C17: when the upstream requests of all the sources of the mix fail,
\* fetchMix rejects
C17_MixRejectsWhenAllFail ==
    \A a \in MixAttempts :
        (/\ attempts[a].pc = "settled"
         /\ attempts[a].tw = "error"
         /\ \A c \in ChildrenOf(a) : SourceRequestFailed(c))
            => /\ attempts[a].status = "rejected"
               /\ \A c \in CallIds :
                     (calls[c].pc = "done" /\ calls[c].join = a)
                         => calls[c].status = "error"

-----------------------------------------------------------------------------
(* Further properties of the cache *)

\* C18: a set never fails its caller: when the L2 write fails the failure
\* is swallowed, set returns normally, and at its return L1 holds the value
\* (for a set that took no time, and whose L1 entry no other set, delete,
\* clear or rehydrating get replaced meanwhile)
C18_SetNeverFails ==
    \A key \in CacheKeys :
        /\ setLog[key].returned # "threw"
        /\ setLog[key].l2 = "failed" =>
              /\ setLog[key].returned = "ok"
              /\ (~setLog[key].aged /\ setLog[key].kept)
                    => setLog[key].l1 = setLog[key].data

\* the L2 write of a set failed, the set returned and L1 serves the value
C18_Witness ==
    \E key \in CacheKeys :
        /\ setLog[key].l2 = "failed"
        /\ setLog[key].returned = "ok"
        /\ setLog[key].kept /\ ~setLog[key].aged
        /\ L1Fresh(memoryCache, key, now)
        /\ memoryCache[key].data = setLog[key].data
        /\ ~collection[key].present

-----------------------------------------------------------------------------
(* Properties of DevToService.fetchNews and LobstersService.fetchNews *)

\* C19: concurrent calls of fetchNews of Dev.to, or of Lobsters, that start
\* while the source's cache key is empty are served by one upstream request
C19_NewsSingleFlight ==
    \A c \in CallIds : \A d \in calls[c].peers :
        (calls[c].target \in NewsTargets /\ Duplicates(c, d))
            => calls[c].join = calls[d].join

\* C20: a list fetch is idempotent while the cache entry lives (no time
\* passes here): a call that starts after a call of the same key has
\* returned a list returns that list and causes no upstream request
C20_IdempotentFetch ==
    \A c \in CallIds :
        (/\ calls[c].target \in ListTargets
         /\ calls[c].prior # {}
         /\ calls[c].pc = "done")
            => /\ calls[c].status = "value"
               /\ calls[c].prior = {calls[c].value}
               /\ ~calls[c].owner

-----------------------------------------------------------------------------
(* Relevance scoring with the score cache: filterByTechRelevance of        *)
(* TabNewsService (HackerNewsService and DevToService alike) on one item,  *)
(* whose score is cached under `tech-score:${item.id}`.                    *)

MIN_TECH_SCORE == 61
MAX_SCORE_FOR_CODE_HOSTING == 60

\* what the model answers: a number (response.text parsed by parseInt), an
\* empty text, a text that is no number, or the call fails
AiNumbers == {0, 50, 100, 101}
AiResponses ==
    {[kind |-> k, n |-> 0] : k \in {"error", "empty", "invalid"}}
        \cup {[kind |-> "number", n |-> n] : n \in AiNumbers}

\* GeminiService.analyzeTechRelevance: 0 for an empty response, for a score
\* that is NaN or outside 0..100, and when the call throws
analyzeTechRelevance(resp) ==
    IF resp.kind # "number" THEN 0
    ELSE IF resp.n < 0 \/ resp.n > 100 THEN 0
    ELSE resp.n

capScoreForCodeHostingSites(score, isCodeHosting) ==
    IF isCodeHosting THEN Min(score, MAX_SCORE_FOR_CODE_HOSTING) ELSE score

\* CacheService.get for a single caller: what it returns, and L1 after it
CacheGet(mc, coll, key, t) ==
    IF L1Fresh(mc, key, t) THEN mc[key].data
    ELSE IF isConnected /\ L2Hit(coll[key], t) THEN coll[key].data
    ELSE Null

CacheAfterGet(mc, coll, key, t) ==
    IF L1Fresh(mc, key, t) THEN mc
    ELSE IF isConnected /\ L2Hit(coll[key], t)
    THEN [mc EXCEPT ![key] = L1Entry(coll[key].data, t, coll[key].setAt,
                                     coll[key].setTtl)]
    ELSE L1AfterLookup(mc, key, t)

\* the score a tier holds for the key and has not expired by the tier's own
\* rule (history: taken when the lookup begins)
LiveScore(mc, coll, key, t) ==
    IF L1Fresh(mc, key, t) THEN mc[key].data
    ELSE IF isConnected THEN mongoGetResult(coll[key], t)
    ELSE Null

\* `if (cachedScore !== null)`
UseCached(cachedScore) == cachedScore # Null

\* enrich, while scoring: pc; live = LiveScore at the lookup; source = where
\* the score of the item came from; score
ScoreIdle == [pc |-> "idle", live |-> Null, source |-> "none",
              score |-> Null]

ScoreFrame == <<clients, setLog, lastGet, ops, fetchVars, feed, persist,
                ranked, timers>>

\* filterByTechRelevance up to the AI call: the cached score is reused
ScoreItem ==
    /\ enrich.pc = "idle"
    /\ memoryCache' = CacheAfterGet(memoryCache, collection, TechScoreKey, now)
    /\ LET cachedScore == CacheGet(memoryCache, collection, TechScoreKey, now)
           live == LiveScore(memoryCache, collection, TechScoreKey, now)
       IN enrich' = IF UseCached(cachedScore)
                    THEN [pc |-> "idle", live |-> live, source |-> "cache",
                          score |-> cachedScore]
                    ELSE [pc |-> "ai", live |-> live, source |-> "none",
                          score |-> Null]
    /\ UNCHANGED <<now, collection, isConnected>>
    /\ UNCHANGED ScoreFrame

\* the AI call returns: the score is capped and cached for 24 hours
\* (set: L1 written; the L2 write may fail, which is swallowed)
AiReplies(resp, isCodeHosting, ok) ==
    /\ enrich.pc = "ai"
    /\ LET score == capScoreForCodeHostingSites(analyzeTechRelevance(resp),
                                                isCodeHosting)
       IN /\ memoryCache' = [memoryCache EXCEPT ![TechScoreKey] =
                L1Entry(score, now, now, TECH_SCORE_CUSTOM_TTL)]
          /\ collection' =
                IF isConnected /\ ok
                THEN [collection EXCEPT ![TechScoreKey] =
                        L2Entry(score,
                                now + mongoTtl(TechScoreKey,
                                               TECH_SCORE_CUSTOM_TTL),
                                now, TECH_SCORE_CUSTOM_TTL)]
                ELSE collection
          /\ enrich' = [enrich EXCEPT !.pc = "idle", !.source = "ai",
                                      !.score = score]
    /\ UNCHANGED <<now, isConnected>>
    /\ UNCHANGED ScoreFrame

\* time passes between two passes of the filter
ScoreTick ==
    /\ NextInstant(now) <= MaxNow
    /\ now' = NextInstant(now)
    /\ UNCHANGED <<memoryCache, collection, isConnected, enrich, ranked, timers>>
    /\ UNCHANGED ScoreFrame

ScoreInit ==
    /\ now = 0
    /\ memoryCache = [k \in CacheKeys |-> L1Absent]
    /\ collection = [k \in CacheKeys |-> L2Absent]
    /\ isConnected \in BOOLEAN
    /\ clients = [c \in Clients |-> IdleClient]
    /\ setLog = [k \in CacheKeys |-> NoSet]
    /\ lastGet = NoGet
    /\ ops = 0
    /\ InitFetch
    /\ InitFeedIdle
    /\ InitPersistIdle
    /\ InitRankIdle
    /\ InitStatusIdle
    /\ enrich = ScoreIdle

ScoreNext ==
    \/ ScoreItem
    \/ \E resp \in AiResponses, isCodeHosting \in BOOLEAN, ok \in BOOLEAN :
          AiReplies(resp, isCodeHosting, ok)
    \/ ScoreTick

SpecScore == ScoreInit /\ [][ScoreNext]_vars

\* C21: a score that is cached for the item and has not expired is reused,
\* whatever its value in 0..100, and the AI scorer is not called
C21_CachedScoreReused ==
    enrich.live # Null
        => /\ enrich.pc # "ai"
           /\ enrich.source = "cache" => enrich.score = enrich.live

-----------------------------------------------------------------------------
(* Further properties of the unified feed *)

\* the cursor of the second request is the id of no item of the sequence
UnknownCursor ==
    /\ feed.phase = "second"
    /\ feed.after # NoCursor
    /\ feed.after \notin Ids(feed.second.all)

\* C22: a cursor that is the id of no item is no error: the request is
\* answered as a request without cursor is, the page starting at index 0
C22_UnknownCursorRestarts ==
    UnknownCursor
        => /\ feed.second = Compose(feed, feed.limit2, NoCursor)
           /\ feed.second.items
                = SubSeq(feed.second.all, 1,
                         Min(feed.limit2, Len(feed.second.all)))

\* a request with an unknown cursor was answered with the first items
C22_Witness ==
    /\ UnknownCursor
    /\ Len(feed.second.all) > feed.limit2
    /\ Len(feed.second.items) = feed.limit2
    /\ feed.second.items[1] = feed.second.all[1]

\* the number of items of the sequence up to the end of the page returned
\* to a request with cursor `after`
PageEnd(response, after) ==
    StartIdx(response.all, after) + Len(response.items)

\* nextCursor is null when nothing follows the page; otherwise it is null
\* or the id of the last item of the page
CursorTellsMore(response, after) ==
    /\ PageEnd(response, after) = Len(response.all)
          => response.nextCursor = NoCursor
    /\ response.nextCursor # NoCursor
          => /\ PageEnd(response, after) < Len(response.all)
             /\ response.items # <<>>
             /\ response.nextCursor
                  = response.items[Len(response.items)].id

\* C23: nextCursor is null whenever no item follows the returned page; a
\* non-null nextCursor means a further item exists and is the id of the last
\* item returned
C23_NextCursor ==
    /\ feed.phase \in {"first", "second"}
          => CursorTellsMore(feed.first, NoCursor)
    /\ feed.phase = "second" => CursorTellsMore(feed.second, feed.after)

\* the rank of the item at position p among the items of its source
RankInSource(seq, p) ==
    Cardinality({q \in 1..p : seq[q].source = seq[p].source})

PlaceOf(order, source) == CHOOSE i \in DOMAIN order : order[i] = source

\* the items of every source run by descending score, and the index-i items
\* of all sources come, in the order of the sources, before any index-(i+1)
\* item
RoundRobin(seq, order) ==
    \A p, q \in DOMAIN seq :
        p < q =>
            /\ seq[p].source = seq[q].source => seq[p].score >= seq[q].score
            /\ \/ RankInSource(seq, p) < RankInSource(seq, q)
               \/ /\ RankInSource(seq, p) = RankInSource(seq, q)
                  /\ PlaceOf(order, seq[p].source)
                        < PlaceOf(order, seq[q].source)

MixSources == <<"TabNews", "HackerNews", "Twitter">>

\* C24: the composed sequence, of the mix and of the feed, is the round-robin
\* interleave of the per-source lists sorted by descending score
C24_RoundRobin ==
    feed.phase # "idle"
        => /\ RoundRobin(feed.mix.items, MixSources)
           /\ RoundRobin(feed.first.all, FeedSources)

\* two sources delivered two items each, in ascending score order, and the
\* sequence alternates between them
C24_Witness ==
    /\ feed.phase = "first"
    /\ feed.shape = "asc"
    /\ \E a, b \in SourcesIn(feed.first.all) :
          /\ a # b
          /\ Len(feed.first.all) >= 4
          /\ feed.first.all[1].source = a /\ feed.first.all[2].source = b
          /\ feed.first.all[3].source = a /\ feed.first.all[4].source = b
          /\ feed.first.all[1].score > feed.first.all[3].score

-----------------------------------------------------------------------------
(* The feed of news and highlights: FeedService.fetchFeed of               *)
(* services/feed.service.ts, on the settled results of fetchMix and        *)
(* fetchHighlights.                                                        *)

NEWS_PER_HIGHLIGHT == 5
FIRST_BLOCK_NEWS == 2

NewsItems(n) == [i \in 1..n |-> [id |-> <<"news", i>>, type |-> "news"]]
Highlights(h) ==
    [i \in 1..h |-> [id |-> <<"highlight", i>>, type |-> "highlight"]]

Take(seq, k) == SubSeq(seq, 1, Min(k, Len(seq)))
Drop(seq, k) == SubSeq(seq, Min(k, Len(seq)) + 1, Len(seq))

\* `while (newsIdx < news.length || highlightIdx < highlights.length)`: up
\* to 5 news, then 1 highlight if there is one
RECURSIVE InterleaveRest(_, _)
InterleaveRest(news, highlights) ==
    IF news = <<>> /\ highlights = <<>> THEN <<>>
    ELSE Take(news, NEWS_PER_HIGHLIGHT) \o Take(highlights, 1)
            \o InterleaveRest(Drop(news, NEWS_PER_HIGHLIGHT),
                              Drop(highlights, 1))

\* FeedService.interleaveItems: a first block of 2 news and 1 highlight,
\* then blocks of 5 news and 1 highlight
interleaveItems(news, highlights) ==
    Take(news, FIRST_BLOCK_NEWS) \o Take(highlights, 1)
        \o InterleaveRest(Drop(news, FIRST_BLOCK_NEWS), Drop(highlights, 1))

\* a page cut that starts at the cursor's item instead of after it
paginateAtCursor(items, limit, after) ==
    LET startIdx == StartIdxAtCursor(items, after)
        paginatedItems == Slice(items, startIdx, startIdx + limit)
    IN [items |-> paginatedItems,
        nextCursor |-> IF Len(paginatedItems) = limit
                          /\ startIdx + limit < Len(items)
                       THEN paginatedItems[Len(paginatedItems)].id
                       ELSE NoCursor]

\* FeedService.paginateItems
paginateItems(items, limit, after) ==
    LET startIdx == StartIdx(items, after)
        paginatedItems == Slice(items, startIdx, startIdx + limit)
    IN [items |-> paginatedItems,
        nextCursor |-> IF Len(paginatedItems) = limit
                          /\ startIdx + limit < Len(items)
                       THEN paginatedItems[Len(paginatedItems)].id
                       ELSE NoCursor]

\* a settled promise: fulfilled with the items, or rejected
Settled(items) == {Fulfilled(items), RejectedWith("failed")}

\* `result.status === "fulfilled" ? result.value : []`
ValueOrEmpty(result) ==
    IF result.status = "value" THEN result.items ELSE <<>>

\* GET /api/feed: the streams are interleaved and the page is cut
HighlightsFetchFeed(limit) ==
    /\ feed.phase = "idle"
    /\ LET all == interleaveItems(ValueOrEmpty(feed.news),
                                  ValueOrEmpty(feed.highlights))
       IN \E after \in {NoCursor, <<"unknown", 0>>}
                          \cup {all[i].id : i \in DOMAIN all} :
             feed' = [feed EXCEPT !.phase = "done", !.limit = limit,
                                  !.after = after, !.all = all,
                                  !.response = paginateItems(all, limit,
                                                             after)]
    /\ UNCHANGED <<cacheVars, clients, setLog, lastGet, ops, fetchVars,
                   persist, enrich, ranked, timers>>

HighlightsInit ==
    /\ now = 0
    /\ memoryCache = [k \in CacheKeys |-> L1Absent]
    /\ collection = [k \in CacheKeys |-> L2Absent]
    /\ isConnected = FALSE
    /\ clients = [c \in Clients |-> IdleClient]
    /\ setLog = [k \in CacheKeys |-> NoSet]
    /\ lastGet = NoGet
    /\ ops = 0
    /\ InitFetch
    /\ InitPersistIdle
    /\ InitEnrichIdle
    /\ InitRankIdle
    /\ InitStatusIdle
    /\ \E n \in 0..MaxNews, h \in 0..MaxHighlights :
          \E news \in Settled(NewsItems(n)),
             highlights \in Settled(Highlights(h)) :
             feed = [phase |-> "idle", news |-> news,
                     highlights |-> highlights, limit |-> 0,
                     after |-> NoCursor, all |-> <<>>,
                     response |-> [items |-> <<>>, nextCursor |-> NoCursor]]

HighlightsNext == \E limit \in Limits : HighlightsFetchFeed(limit)

SpecHighlights == HighlightsInit /\ [][HighlightsNext]_vars

\* the type the 5:1 pattern puts at position p (1-based)
PatternType(p) ==
    IF p % (NEWS_PER_HIGHLIGHT + 1) = 0 THEN "highlight" ELSE "news"

\* both streams still have the items the pattern needs up to position p
BothLast(p) ==
    /\ p - (p \div (NEWS_PER_HIGHLIGHT + 1)) <= Len(ValueOrEmpty(feed.news))
    /\ p \div (NEWS_PER_HIGHLIGHT + 1) <= Len(ValueOrEmpty(feed.highlights))
    /\ ValueOrEmpty(feed.highlights) # <<>>

\* C25: while news and highlights are both available the feed runs 5 news,
\* 1 highlight from the first item on: positions 1-5 news, 6 a highlight,
\* 7-11 news, 12 a highlight
C25_FiveToOne ==
    feed.phase = "done"
        => \A p \in DOMAIN feed.all :
              BothLast(p) => feed.all[p].type = PatternType(p)

\* every item of the input occurs exactly once in the output, which has
\* nothing else
SameItems(input, output) ==
    /\ Len(output) = Len(input)
    /\ \A i \in DOMAIN input :
          Cardinality({p \in DOMAIN output : output[p] = input[i]}) = 1

\* what the streams of the feed delivered: the mix, Dev.to, Lobsters
FeedInput ==
    handleSourceResult(feed.mix).items
        \o handleSourceResult(DevToFetchNews(feed.devto, feed.shape)).items
        \o handleSourceResult(LobstersFetchNews(feed.lobsters,
                                                feed.shape)).items

\* C26: interleaving loses and duplicates nothing: every item a successfully
\* fetched stream delivered occurs exactly once in the interleaved sequence,
\* whose length is the sum of the lengths of the streams
C26_NothingLost ==
    feed.phase # "idle" => SameItems(FeedInput, feed.first.all)

-----------------------------------------------------------------------------
(* Enrichment of one item: EnrichmentService.enrichNewsItem with           *)
(* analyzeTechScore, extractKeywords, calculateConfidence and the          *)
(* processing log written in its `finally`.                                *)

Undefined == -2     \* item.techScore === undefined

\* the items enriched: the techScore the item already carries, whether its
\* title or body is long enough for the AI, how many terms of TECH_KEYWORDS
\* its text includes, and what calculateConfidence looks at
EnrichItems ==
    [techScore : {Undefined, 0, 60, 61},
     hasEnoughContent : BOOLEAN,
     matchCount : 0..MaxMatches,
     longBody : BOOLEAN,
     engaged : BOOLEAN]

\* what may throw inside the try block of enrichNewsItem
Faults == {"none", "score", "keywords"}

\* estimateTechScoreFromKeywords: Math.min(100, matchCount * 15)
estimateTechScoreFromKeywords(item) == Min(100, item.matchCount * 15)

\* analyzeTechScore before the AI call: the score it returns without the
\* AI, or Null when the AI is asked
ScoreWithoutAi(item) ==
    IF item.techScore # Undefined /\ item.techScore > 0 THEN item.techScore
    ELSE IF ~item.hasEnoughContent THEN estimateTechScoreFromKeywords(item)
    ELSE Null

\* analyzeTechScore after `await geminiService.analyzeTechRelevance`: the
\* score is returned; the keyword fallback is taken when that call rejects
analyzeTechScore(item, rejected, score) ==
    IF rejected THEN estimateTechScoreFromKeywords(item) ELSE score

\* extractKeywords: at most 10 keywords, isTechNews with 2 or more
extractKeywords(item) ==
    [keywords |-> Min(item.matchCount, 10),
     isTechNews |-> Min(item.matchCount, 10) >= 2]

\* calculateConfidence, in tenths: 0.5, +0.2 for a long body, +0.1 each for
\* a long title, many comments and a score above 10 (taken together here),
\* at most 1
calculateConfidence(item) ==
    Min(10, 5 + (IF item.longBody THEN 2 ELSE 0)
              + (IF item.engaged THEN 3 ELSE 0))

\* the EnrichedNewsItem of the try block
Enriched(item, techScore) ==
    [error |-> FALSE, techScore |-> techScore,
     techScoreConfidence |-> calculateConfidence(item),
     keywords |-> extractKeywords(item).keywords,
     isTechNews |-> extractKeywords(item).isTechNews \/ techScore >= 60]

\* the EnrichedNewsItem of the catch block
ZeroItem == [error |-> TRUE, techScore |-> 0, techScoreConfidence |-> 0,
             keywords |-> 0, isTechNews |-> FALSE]

NoItem == [error |-> FALSE, techScore |-> Null, techScoreConfidence |-> 0,
           keywords |-> 0, isTechNews |-> FALSE]

\* a log that lets the failure of insertOne through
logRethrows(ok) == IF ok THEN "ok" ELSE "threw"

\* ProcessingLogsService.log: a failure of insertOne is caught and logged
logReturns(ok) == "ok"

EnrichFrame == <<cacheVars, clients, setLog, lastGet, ops, fetchVars, feed,
                 persist, ranked, timers>>

\* the `finally` of enrichNewsItem: `await this.processingLogs.log(...)`,
\* which returns at once when the log collection is not connected
Finally(result) ==
    IF enrich.logConnected
    THEN [enrich EXCEPT !.pc = "log", !.result = result]
    ELSE [enrich EXCEPT !.pc = "done", !.result = result]

\* enrichNewsItem up to its first await that suspends
EnrichBegin ==
    /\ enrich.pc = "idle"
    /\ enrich' =
          IF enrich.fault = "keywords" THEN Finally(ZeroItem)
          ELSE IF ScoreWithoutAi(enrich.item) = Null
          THEN [enrich EXCEPT !.pc = "ai"]
          ELSE IF enrich.fault = "score" THEN Finally(ZeroItem)
          ELSE Finally(Enriched(enrich.item, ScoreWithoutAi(enrich.item)))
    /\ UNCHANGED EnrichFrame

\* the AI call of analyzeTechScore returns (analyzeTechRelevance never
\* rejects: it returns 0 when the call fails)
AiReturns(resp) ==
    /\ enrich.pc = "ai"
    /\ enrich' =
          [(IF enrich.fault = "score" THEN Finally(ZeroItem)
            ELSE Finally(Enriched(enrich.item,
                                  analyzeTechScore(enrich.item, FALSE,
                                      analyzeTechRelevance(resp)))))
           EXCEPT !.ai = resp.kind]
    /\ UNCHANGED EnrichFrame

\* MongoDB answers the insertOne of the processing log
LogInsertOne(ok) ==
    /\ enrich.pc = "log"
    /\ enrich' = [enrich EXCEPT !.pc = "done",
                                !.raised = logReturns(ok) = "threw",
                                !.logged = IF ok THEN "ok" ELSE "failed"]
    /\ UNCHANGED EnrichFrame

EnrichInit ==
    /\ now = 0
    /\ memoryCache = [k \in CacheKeys |-> L1Absent]
    /\ collection = [k \in CacheKeys |-> L2Absent]
    /\ isConnected = FALSE
    /\ clients = [c \in Clients |-> IdleClient]
    /\ setLog = [k \in CacheKeys |-> NoSet]
    /\ lastGet = NoGet
    /\ ops = 0
    /\ InitFetch
    /\ InitFeedIdle
    /\ InitPersistIdle
    /\ InitRankIdle
    /\ InitStatusIdle
    /\ \E item \in EnrichItems, fault \in Faults, logConnected \in BOOLEAN :
          enrich = [pc |-> "idle", item |-> item, fault |-> fault,
                    logConnected |-> logConnected, ai |-> "none",
                    result |-> NoItem, raised |-> FALSE, logged |-> "none"]

EnrichNext ==
    \/ EnrichBegin
    \/ \E resp \in AiResponses : AiReturns(resp)
    \/ \E ok \in BOOLEAN : LogInsertOne(ok)

SpecEnrich == EnrichInit /\ [][EnrichNext]_vars

AiFailed == enrich.ai \in {"error", "empty", "invalid"}

\* C28: when the AI scorer fails or answers with an empty or invalid
\* response, the techScore of the item is the keyword estimate,
\* min(100, 15 * number of vocabulary terms matched)
C28_KeywordFallback ==
    (enrich.pc = "done" /\ AiFailed /\ ~enrich.result.error)
        => enrich.result.techScore = Min(100, 15 * enrich.item.matchCount)

\* C29: an enriched item is marked relevant if and only if its relevance
\* score is at least 61
C29_RelevantFrom61 ==
    (enrich.pc = "done" /\ ~enrich.result.error)
        => (enrich.result.isTechNews <=> enrich.result.techScore >= 61)

-----------------------------------------------------------------------------
(* Further properties of the cache: clear *)

\* C30: after clear() has completed, a get of a key that was set before the
\* clear was started returns null, until the key is set again
C30_ClearedKeysAbsent ==
    lastGet.cleared => lastGet.result = Null

-----------------------------------------------------------------------------
(* fetchMix and the persistAll it starts: progress *)

\* C31: once the pipeline of fetchMix has started persistAll, nothing it
\* still does waits for persistAll: the pipeline has settled, or it awaits
\* only MongoDB's answer to its own cache.set and settles with that answer,
\* whether persistAll has settled, is still running, or never settles
C31_PersistenceNeverBlocks ==
    \A a \in MixAttempts :
        (attempts[a].persist # "none")
            => \/ /\ attempts[a].pc = "settled"
                  /\ \A c \in CallIds :
                        (calls[c].pc # "unused" /\ calls[c].join = a)
                            => calls[c].pc = "done"
               \/ /\ attempts[a].pc = "updateOne"
                  /\ ENABLED (\E ok \in BOOLEAN : AttemptUpdateOne(a, ok))

\* a caller of fetchMix has the mix while persistAll is still running
C31_Witness ==
    \E a \in MixAttempts : \E c \in CallIds :
        /\ attempts[a].persist = "running"
        /\ attempts[a].pc = "settled"
        /\ calls[c].pc = "done" /\ calls[c].join = a
        /\ calls[c].status = "value" /\ calls[c].value = ListOf(a)

-----------------------------------------------------------------------------
(* RankingService.calculateRank and SmartMixService.rankItems *)

\* the constants of calculateRank, as integers: the weights in tenths, the
\* boost per point of techScore in thousandths
COMMENT_WEIGHT == 8
LIKE_WEIGHT == 12
TECH_SCORE_WEIGHT == 15
SCALE_FACTOR == 1000

\* the items a ranking pass may be given: native score, comment count,
\* techScore, and age in hours at the time of the pass
NativeScores == {0, 10, 100}
CommentCounts == {0, 3}
TechScores == {0, 100}
AgesInHours == {26, 1018}
RankInputs ==
    [score : NativeScores, commentCount : CommentCounts,
     techScore : TechScores, ageInHours : AgesInHours]

\* `score * LIKE_WEIGHT + comments * COMMENT_WEIGHT`, in tenths
engagement(item) ==
    item.score * LIKE_WEIGHT + item.commentCount * COMMENT_WEIGHT

\* `Math.log10(Math.max(1, engagement))` in thousandths, on the engagements
\* (in tenths) that RankInputs produce
normalizedScore(tenths) ==
    CASE tenths <= 10  -> 0
      [] tenths = 24   -> 380
      [] tenths = 120  -> 1079
      [] tenths = 144  -> 1158
      [] tenths = 1200 -> 2079
      [] tenths = 1224 -> 2088

\* `Math.pow(ageInHours + 6, 1.2)`: 32^1.2 = 2^6 and 1024^1.2 = 2^12
ageDecay(ageInHours) ==
    CASE ageInHours = 26   -> 64
      [] ageInHours = 1018 -> 4096

\* `1 + techScore * TECH_SCORE_WEIGHT`, in thousandths
techBoost(techScore) == 1000 + techScore * TECH_SCORE_WEIGHT

\* 0.2 for no comment, 0.5 for fewer than 3 comments, else 1.0; in tenths
commentPenalty(comments) ==
    IF comments = 0 THEN 2 ELSE IF comments < 3 THEN 5 ELSE 10

\* Math.round of the quotient n / d of two naturals
Round(n, d) == (2 * n + d) \div (2 * d)

\* Math.round((normalizedScore / ageDecay) * techBoost * commentPenalty
\*            * SCALE_FACTOR); the factors in thousandths, thousandths and
\* tenths are scaled back by 10^7 / SCALE_FACTOR
calculateRank(item) ==
    Round(normalizedScore(engagement(item)) * techBoost(item.techScore)
              * commentPenalty(item.commentCount),
          ageDecay(item.ageInHours) * (10000000 \div SCALE_FACTOR))

\* the first map of rankItems: the item with its calculated score, rank 0
Scored(items, rankOf) ==
    [i \in 1..Len(items) |->
        [itemId |-> i, score |-> calculateRank(items[i]),
         originalScore |-> items[i].score,
         commentCount |-> items[i].commentCount,
         techScore |-> items[i].techScore,
         ageInHours |-> items[i].ageInHours, rank |-> rankOf[i]]]

\* a pass that numbers the items before it sorts them
rankThenSort(items) ==
    SortByScore(Scored(items, [i \in 1..Len(items) |-> i]))

\* .map(score).sort(by calculatedScore, highest first)
\* .map((item, index) => ({ ...item, rank: index + 1 }))
rankItems(items) ==
    LET sorted == SortByScore(Scored(items, [i \in 1..Len(items) |-> 0]))
    IN [i \in 1..Len(sorted) |-> [sorted[i] EXCEPT !.rank = i]]

RECURSIVE SeqsUpTo(_, _)
\* the sequences over S of length at most n
SeqsUpTo(S, n) ==
    IF n = 0 THEN {<<>>}
    ELSE SeqsUpTo(S, n - 1)
         \cup {Append(q, x) : q \in {r \in SeqsUpTo(S, n - 1) :
                                        Len(r) = n - 1}, x \in S}

\* doFetchEnrichAndRank ranks the enriched items of a source (one pass is
\* followed)
RankPass(items) ==
    /\ ranked = <<>>
    /\ ranked' = [input |-> items, out |-> rankItems(items)]
    /\ UNCHANGED <<cacheVars, clients, setLog, lastGet, ops, fetchVars, feed,
                   persist, enrich, timers>>

RankInit ==
    /\ InitCache
    /\ InitFetch
    /\ InitFeedIdle
    /\ InitPersistIdle
    /\ InitEnrichIdle
    /\ InitRankIdle
    /\ InitStatusIdle

RankNext == \E items \in SeqsUpTo(RankInputs, MaxRanked) : RankPass(items)

SpecRank == RankInit /\ [][RankNext]_vars

\* C32: the ranks of a pass over N items are exactly 1..N, each once, and
\* run with the calculated scores: rank 1 has the highest score
C32_DenseRanks ==
    ranked # <<>> =>
        LET out == ranked.out
        IN /\ Len(out) = Len(ranked.input)
           /\ {out[i].rank : i \in DOMAIN out} = 1..Len(ranked.input)
           /\ \A i, j \in DOMAIN out :
                 /\ (i # j => out[i].rank # out[j].rank)
                 /\ (out[i].rank < out[j].rank
                        => out[i].score >= out[j].score)

\* a pass whose second item has the higher calculated score
C32_Witness ==
    /\ ranked # <<>>
    /\ Len(ranked.input) >= 2
    /\ calculateRank(ranked.input[1]) < calculateRank(ranked.input[2])
    /\ \E i \in DOMAIN ranked.out :
          ranked.out[i].itemId = 2 /\ ranked.out[i].rank = 1

\* C33: of two items of a pass with the same age and the same techScore, the
\* one with the greater or equal engagement never has the lower score
C33_MonotoneInEngagement ==
    ranked # <<>> =>
        \A i, j \in DOMAIN ranked.input :
            LET a == ranked.input[i]
                b == ranked.input[j]
            IN (/\ a.ageInHours = b.ageInHours
                /\ a.techScore = b.techScore
                /\ engagement(a) >= engagement(b))
                   => calculateRank(a) >= calculateRank(b)

\* C34: of two items of a pass that differ in techScore only, 100 against 0,
\* the first has more than 1.4 times and less than 1.6 times the score of
\* the second (for scores of at least 10, where Math.round cannot move the
\* ratio out of that range)
C34_TechBoost ==
    ranked # <<>> =>
        \A i, j \in DOMAIN ranked.input :
            LET a == ranked.input[i]
                b == ranked.input[j]
            IN (/\ a = [b EXCEPT !.techScore = 100]
                /\ b.techScore = 0
                /\ calculateRank(b) >= 10)
                   => /\ 10 * calculateRank(a) > 14 * calculateRank(b)
                      /\ 10 * calculateRank(a) < 16 * calculateRank(b)

-----------------------------------------------------------------------------
(* Upstream failures and the cache *)

\* C35: when the upstream request of a physical fetch fails (non-2xx status
\* or network error), the fetch stores nothing: L1 is left as it was and no
\* updateOne is sent for the key
C35_FailureNotCached ==
    [][\A a \in AttemptIds :
          (/\ attempts[a].pc = "upstream"
           /\ attempts'[a].outcome \in {"non2xx", "neterr"})
              => /\ memoryCache' = memoryCache
                 /\ attempts'[a].pc # "updateOne"]_vars

-----------------------------------------------------------------------------
(* What persistAll reports and what the warehouse holds *)

\* the documents of the items of operation o are in the warehouse
Stored(o) ==
    \A i \in PersistItems :
        \E doc \in persist.store :
            /\ doc.coll = PersistData[o].cat
            /\ doc.id = <<PersistData[o].source, PersistData[o].cat, i>>

\* C36: when persistAll has returned success = true and the count of all
\* its items for a category of news, every item of that category is in the
\* warehouse, whether the warehouse is connected or not
C36_SuccessMeansWritten ==
    persist # <<>> =>
        \A cat \in {"raw", "ranked"} :
            (/\ persist.phase = "done"
             /\ persist.results[cat].success
             /\ persist.results[cat].count
                   = Cardinality(OpsOf(cat)) * MaxPersistItems)
                => \A o \in OpsOf(cat) : Stored(o)

-----------------------------------------------------------------------------
(* Concurrent sets of one key *)

\* C37: when the last of two overlapping sets of a key with different values
\* completes (the other one began later, wrote L1, and its value is in L2),
\* both tiers hold the same value for the key
C37_TiersAgree ==
    [][\A c \in Clients :
          LET key == clients[c].key
          IN (/\ clients[c].pc = "updateOne"
              /\ clients'[c].pc = "idle"
              /\ \A d \in Clients \ {c} :
                    ~(clients[d].pc = "updateOne" /\ clients[d].key = key)
              /\ setLog[key].data # clients[c].doc.data
              /\ L1Payload(memoryCache, key) = setLog[key].data
              /\ collection[key].present
              /\ collection[key].data = setLog[key].data)
                 => L1Payload(memoryCache', key) = collection'[key].data]_vars

-----------------------------------------------------------------------------
(* Paging through a feed: the three paginators *)

\* SmartMixService.fetchMixPaginated on the list fetchMix returned
fetchMixPaginated(allItems, limit, after) ==
    LET startIdx == StartIdx(allItems, after)
        items == Slice(allItems, startIdx, startIdx + limit)
    IN [items |-> items,
        nextCursor |-> IF Len(items) = limit
                          /\ startIdx + limit < Len(allItems)
                       THEN items[Len(items)].id
                       ELSE NoCursor]

Pagers == {"fetchFeed", "paginateItems", "fetchMixPaginated"}

\* the sequence a paginator cuts its pages from
Interleaved(f) ==
    IF f.pager = "fetchFeed" THEN Compose(f, 1, NoCursor).all
    ELSE IF f.pager = "paginateItems"
    THEN interleaveItems(NewsItems(f.news), Highlights(f.highlights))
    ELSE MixOf(f).items

\* the answer to a request for a page
Page(f, limit, after) ==
    IF f.pager = "fetchFeed"
    THEN LET response == Compose(f, limit, after)
         IN [items |-> response.items, nextCursor |-> response.nextCursor]
    ELSE IF f.pager = "paginateItems"
    THEN paginateItems(Interleaved(f), limit, after)
    ELSE fetchMixPaginated(Interleaved(f), limit, after)

\* a client asks for the next page with the cursor it was given last (none
\* at first); the upstreams answer as before.  A client makes no more than
\* Len + 2 requests.
PageRequest(limit) ==
    /\ feed.phase = "paging"
    /\ ~feed.done
    /\ feed.requests <= Len(Interleaved(feed)) + 1
    /\ LET response == Page(feed, limit, feed.after)
       IN feed' = [feed EXCEPT
             !.pages = @ \o response.items,
             !.after = response.nextCursor,
             !.done = response.nextCursor = NoCursor,
             !.requests = @ + 1]
    /\ UNCHANGED <<cacheVars, clients, setLog, lastGet, ops, fetchVars,
                   persist, enrich, ranked, timers>>

PagingInit ==
    /\ InitCache
    /\ InitFetch
    /\ InitPersistIdle
    /\ InitEnrichIdle
    /\ InitRankIdle
    /\ InitStatusIdle
    /\ \E pager \in Pagers, shape \in ScoreShapes,
          a, b, c, d \in 0..MaxItems, t \in 0..MaxTweets,
          n \in 0..MaxNews, h \in 0..MaxHighlights :
          /\ pager = "paginateItems" => a + b + c + d + t = 0 /\ shape = "desc"
          /\ pager # "paginateItems" => n + h = 0
          /\ pager = "fetchMixPaginated" => c + d = 0
          /\ feed = [phase |-> "paging", pager |-> pager, shape |-> shape,
                     tab |-> [outcome |-> "ok", n |-> a],
                     hn |-> [outcome |-> "ok", n |-> b],
                     devto |-> [outcome |-> "ok", n |-> c],
                     lobsters |-> [outcome |-> "ok", n |-> d],
                     tw |-> [outcome |-> "ok", n |-> t],
                     news |-> n, highlights |-> h,
                     after |-> NoCursor, pages |-> <<>>, requests |-> 0,
                     done |-> FALSE]

PagingNext == \E limit \in Limits : PageRequest(limit)

SpecPaging == PagingInit /\ [][PagingNext]_vars

\* C38: paging with the returned cursors over an unchanged sequence ends
\* with a null cursor after at most Len + 1 requests, and the pages put
\* together are the interleaved sequence: every item once, in order
C38_PagingExhaustive ==
    feed # <<>> /\ feed.phase = "paging" =>
        LET all == Interleaved(feed)
        IN /\ feed.requests <= Len(all) + 1
           /\ Len(feed.pages) <= Len(all)
           /\ feed.pages = SubSeq(all, 1, Len(feed.pages))
           /\ feed.done => feed.pages = all

\* a sequence paged to its end in three requests or more
C38_Witness ==
    /\ feed # <<>> /\ feed.phase = "paging"
    /\ feed.done
    /\ feed.requests >= 3
    /\ feed.pages = Interleaved(feed)
    /\ Len(feed.pages) >= 3

-----------------------------------------------------------------------------
(* Hacker News batches over time *)

\* request handlers call fetchBatch while time passes
BatchNext ==
    \/ \E t \in {HackerNewsBatch0, HackerNewsBatch1} : CallBegin(t)
    \/ FetchSteps
    \/ Tick

SpecBatches == FetchInit /\ [][BatchNext]_vars

\* the key has an entry that is no longer served: its lifetime is over
Expired(key) ==
    /\ memoryCache[key].present \/ collection[key].present
    /\ ~L1Fresh(memoryCache, key, now)
    /\ ~L2Hit(collection[key], now)

\* C39: a physical fetch of a batch that starts when the batch's cache entry
\* has expired asks the upstream for the top-stories ids (or awaits such a
\* request under way) before it requests items
C39_IdsAfterExpiry ==
    [][\A a \in AttemptIds :
          (/\ attempts[a].pc = "unused"
           /\ attempts'[a].pc # "unused"
           /\ Kind(attempts'[a].target) = "HackerNews"
           /\ Expired(attempts'[a].target))
              => attempts'[a].pc \in {"idsFetch", "idsWait"}]_vars

-----------------------------------------------------------------------------
(* status-checker: the background task that refreshes the status cache *)

\* timers: backgroundTaskId (0 = null, else the id setInterval returned);
\* live = the interval timers created and not cleared; created = timers
\* created so far; running = updateCache calls under way; fetched, failed =
\* updateCache calls that stored a status / that logged an error; last =
\* what the last call of start or stop did
StatusIdle == [backgroundTaskId |-> 0, live |-> {}, created |-> 0,
               running |-> 0, fetched |-> 0, failed |-> 0, last |-> "none"]

\* a start that does not look at backgroundTaskId
NeverRunning(id) == FALSE

\* `if (backgroundTaskId)`: a timer handle is truthy
AlreadyRunning(id) == id # 0

StatusFrame == <<cacheVars, clients, setLog, lastGet, ops, fetchVars, feed,
                 persist, enrich, ranked>>

\* updateCache calls begun so far
Updates == timers.running + timers.fetched + timers.failed

\* startBackgroundUpdates(): returns when the task is running; otherwise
\* calls updateCache() without awaiting it and creates the interval timer
startBackgroundUpdates ==
    /\ IF AlreadyRunning(timers.backgroundTaskId)
       THEN timers' = [timers EXCEPT !.last = "already running"]
       ELSE /\ timers.created < MaxTimers
            /\ Updates < MaxUpdates
            /\ timers' = [timers EXCEPT
                  !.running = @ + 1,
                  !.created = @ + 1,
                  !.backgroundTaskId = timers.created + 1,
                  !.live = @ \cup {timers.created + 1},
                  !.last = "started"]
    /\ UNCHANGED StatusFrame

\* stopBackgroundUpdates(): clearInterval and backgroundTaskId = null when
\* the task is running
stopBackgroundUpdates ==
    /\ IF AlreadyRunning(timers.backgroundTaskId)
       THEN timers' = [timers EXCEPT
               !.live = @ \ {timers.backgroundTaskId},
               !.backgroundTaskId = 0,
               !.last = "stopped"]
       ELSE timers' = [timers EXCEPT !.last = "not running"]
    /\ UNCHANGED StatusFrame

\* a live interval timer fires: updateCache() is called
IntervalFires(id) ==
    /\ id \in timers.live
    /\ Updates < MaxUpdates
    /\ timers' = [timers EXCEPT !.running = @ + 1]
    /\ UNCHANGED StatusFrame

\* fetchServiceStatuses of an updateCache call settles: the status is
\* stored, or the error is logged
UpdateCacheSettles(ok) ==
    /\ timers.running > 0
    /\ timers' = [timers EXCEPT
          !.running = @ - 1,
          !.fetched = IF ok THEN @ + 1 ELSE @,
          !.failed = IF ok THEN @ ELSE @ + 1]
    /\ UNCHANGED StatusFrame

StatusInit ==
    /\ InitCache
    /\ InitFetch
    /\ InitFeedIdle
    /\ InitPersistIdle
    /\ InitEnrichIdle
    /\ InitRankIdle
    /\ timers = StatusIdle

StatusNext ==
    \/ startBackgroundUpdates
    \/ stopBackgroundUpdates
    \/ \E id \in 1..MaxTimers : IntervalFires(id)
    \/ \E ok \in BOOLEAN : UpdateCacheSettles(ok)

SpecStatus == StatusInit /\ [][StatusNext]_vars

\* C40: there is never more than one live interval timer, and it is the one
\* backgroundTaskId names; a start while the task runs creates no timer, a
\* stop cancels the running timer, a start otherwise creates exactly one
C40_OneTimer ==
    [][/\ Cardinality(timers'.live) <= 1
       /\ timers'.live = IF timers'.backgroundTaskId = 0 THEN {}
                         ELSE {timers'.backgroundTaskId}
       /\ (timers'.last = "already running" /\ timers.backgroundTaskId # 0)
             => timers'.created = timers.created /\ timers'.live = timers.live
       /\ timers'.last = "stopped" => timers'.live = {}
       /\ (timers'.last = "started" /\ timers'.created # timers.created)
             => /\ timers'.created = timers.created + 1
                /\ timers'.live = {timers'.created}]_vars

\* a start after a stop: the second timer is the only live one
C40_Witness ==
    /\ timers # <<>>
    /\ timers.last = "started"
    /\ timers.created = 2
    /\ timers.live = {2}

====
